---- MODULE Spec2Model ----
(***************************************************************************)
(* A model of the frame lifecycle, the deletion queue and the growable     *)
(* descriptor allocator of RadiantEngine (src/src/vk_engine.{h,cpp},       *)
(* src/src/vk_descriptors.{h,cpp}).                                        *)
(*                                                                         *)
(* The specifications of the module:                                       *)
(*   Spec      the render loop: run() / draw() / cleanup() on the CPU and  *)
(*             the GPU queue completing submissions                        *)
(*   SpecRun   Spec with the iterations of run() that find the window      *)
(*             minimized                                                   *)
(*   SpecDQ    one DeletionQueue driven by push_function / flush           *)
(*   SpecAlloc one DescriptorAllocatorGrowable driven by init / allocate / *)
(*             reset_pools / destroy_pools                                 *)
(*   SpecScene the descriptor pools of a scene from load to unload         *)
(*   SpecGrow  a long run of allocations on one allocator                  *)
(*   SpecCull  is_in_frustum on one object                                 *)
(*   SpecDraw  culling, sorting and recording of draw_geometry             *)
(*   SpecNodes the node hierarchy of a LoadedGLTF and its traversal        *)
(*   SpecImm   immediate_submit and the uploads that use it                *)
(***************************************************************************)
EXTENDS Integers, Sequences, FiniteSets, TLC

VARIABLES
    \* ---- render loop (VulkanEngine) ----
    pc,               \* position of the CPU thread in run()/draw()/cleanup()
    frameNumber,      \* VulkanEngine::_frameNumber
    resizeRequested,  \* VulkanEngine::_resizeRequested
    curSlot,          \* index of the FrameData bound to `frame` in draw()
    renderFence,      \* _frames[i].renderFence: TRUE = signaled
    frameDeletors,    \* _frames[i].deletionQueue.deletors (buffer handles)
    frameAlloc,       \* _frames[i].frameDescriptorAllocator
    gpuQueue,         \* submissions on _graphicsQueue the GPU has not finished
    liveBuffers,      \* scene-data buffers created and not yet destroyed
    curBuf,           \* gpuSceneDataBuffer of the frame being recorded
    curSet,           \* sceneDataDescriptorSet of the frame being recorded
    callLog,          \* the steps the current draw() call has performed
    lastSlot,         \* slot of the last draw() that reached presentation
    dropped,          \* draw() calls that returned early since the last present
    abortCause,       \* why abort() was called ("" while running)
    frameFaults,      \* driver faults the frame allocators may still see
    waitResult,       \* what vkWaitForFences returned in this draw() ("none" before)
    acquireResult,    \* e of draw(): what vkAcquireNextImageKHR returned
    presentResult,    \* presentResult of draw(): what vkQueuePresentKHR returned
    swapchainSemaphore, \* _frames[i].swapchainSemaphore: the signal that is
                      \* pending and the signal that has happened (0 = none,
                      \* else the number of the frame acquired, plus one)
    renderSemaphore,  \* _frames[i].renderSemaphore: 0 = unsignaled, else the
                      \* buffer number of the submission that signaled it
    presentQueue,     \* presentation requests not yet executed
    lastPresented,    \* the last image shown: its frame and the signal waited for
    fenceBy,          \* the submission that last signaled _frames[i].renderFence
    \* ---- DeletionQueue on its own ----
    dq,               \* DeletionQueue::deletors
    dqExecuted,       \* every action call made by flush(), in call order
    dqBatch,          \* the deletors as they stood when flush() last began
    dqLast,           \* the calls made by the last flush()
    dqOp,             \* the last operation: "none", "push" or "flush"
    dqPrev,           \* the operation before the last
    dqPushes,         \* number of push_function calls so far
    \* ---- DescriptorAllocatorGrowable on its own ----
    alloc,            \* the allocator object
    allocLog,         \* the attempts of the last allocate(): <<pool, result>>
    allocPre,         \* the allocator as it stood when allocate() last began
    allocState,       \* "uninit", "ready", "aborted" or "destroyed"
    allocCalls,       \* number of allocate() calls so far
    allocResets,      \* number of reset_pools() calls so far
    allocFaults,      \* driver faults the allocator may still see
    allocRun,         \* summary of the allocate() calls since reset_pools()
    sceneMaterials,   \* gltf.materials.size() of the scene being loaded
    \* ---- the VkDevice ----
    device,           \* the descriptor pools of the device and their sets
    \* ---- is_in_frustum on its own ----
    cullObj,          \* the RenderObject tested: bounds and transform
    cullPlanes,       \* the six view-space FrustumPlanes
    cullView,         \* the view matrix
    cullResult,       \* "none" before the call, then "kept" or "culled"
    \* ---- culling and sorting of draw_geometry on its own ----
    surfaces,         \* the surfaces of the meshes of the loaded scene
    OpaqueDrawData,   \* _mainDrawContext.OpaqueDrawData
    TransparentDrawData, \* _mainDrawContext.TransparentDrawData
    opaque_draws,     \* the index list opaque_draws of draw_geometry
    transparent_draws, \* the index list transparent_draws of draw_geometry
    cmd,              \* the commands recorded into the frame's command buffer
    drawStage,        \* the step of the recording reached: "update", "gather", ...
    \* ---- the node hierarchy of one LoadedGLTF ----
    nodes,            \* LoadedGLTF::nodes: the ids of the Node objects, in order
    topNodes,         \* LoadedGLTF::topNodes
    nodeObj,          \* the Node objects by id: parent, children, transforms, ...
    drawContext,      \* the DrawContext the last traversal appended to
    topMatrix,        \* the root transform the last traversal started with
    nodeStage,        \* "off", "loaded", then "gathered" after a traversal
    nodeDeletes,      \* delete_node / delete_all_nodes_except calls made
    \* ---- immediate_submit and the uploads that use it ----
    immPc,            \* position in upload_mesh / create_image / immediate_submit
    immCaller,        \* the function that called immediate_submit
    immFence,         \* _immFence: TRUE = signaled
    immCommandBuffer, \* the commands recorded into _immCommandBuffer
    immQueue,         \* submitted one-shot commands the GPU has yet to execute
    immPending,       \* a submission has yet to signal _immFence
    stagingBuffers,   \* staging buffers created and not yet destroyed
    immStaging,       \* the staging buffer of the upload under way
    uploaded,         \* the uploads that returned a resource, in order
    \* ---- run() and cleanup() around the frames ----
    stop_rendering,   \* the window is minimized
    destroyCount,     \* destroy_buffer calls made for each scene-data buffer
    mainDeletionQueue, \* the deletors of _mainDeletionQueue, in push order
    loadedScenes,     \* _loadedScenes: the buffers and images of each scene
    cleanupLog        \* what cleanup() did, in order

frameVars == <<pc, frameNumber, resizeRequested, curSlot, renderFence,
               frameDeletors, frameAlloc, gpuQueue, liveBuffers, curBuf,
               curSet, callLog, lastSlot, dropped, abortCause, frameFaults,
               waitResult, acquireResult, presentResult, swapchainSemaphore,
               renderSemaphore, presentQueue, lastPresented, fenceBy>>
resultVars == <<waitResult, acquireResult, presentResult>>
syncVars == <<swapchainSemaphore, renderSemaphore, presentQueue, lastPresented,
              fenceBy>>
dqVars == <<dq, dqExecuted, dqBatch, dqLast, dqOp, dqPrev, dqPushes>>
allocVars == <<alloc, allocLog, allocPre, allocState, allocCalls,
               allocResets, allocFaults, allocRun, sceneMaterials>>
cullVars == <<cullObj, cullPlanes, cullView, cullResult>>
drawVars ==
    <<surfaces, OpaqueDrawData, TransparentDrawData, opaque_draws,
      transparent_draws, cmd, drawStage>>
geomVars == <<cullVars, drawVars>>
nodeVars == <<nodes, topNodes, nodeObj, drawContext, topMatrix, nodeStage,
              nodeDeletes>>
immVars == <<immPc, immCaller, immFence, immCommandBuffer, immQueue,
             immPending, stagingBuffers, immStaging, uploaded>>
assetVars == <<nodeVars, immVars>>
engineVars == <<stop_rendering, destroyCount, mainDeletionQueue, loadedScenes,
                cleanupLog>>
vars == <<frameVars, dqVars, allocVars, device, geomVars, assetVars, engineVars>>

(***************************************************************************)
(* Bounds of the model.                                                    *)
(***************************************************************************)
\* draw() is not started once _frameNumber has reached MaxFrames
MaxFrames == 4
\* driver faults (fragmentation, out of host memory) per behaviour of Spec
MaxFrameFaults == 1
\* push_function calls per behaviour of SpecDQ
MaxPush == 4
\* allocate() calls, reset_pools() calls and driver faults of SpecAlloc
MaxAllocCalls == 4
MaxResets == 1
MaxAllocFaults == 2
MaxMaterials == 3
ManyAllocations == 1000
MaxCoord == 2
MaxObjects == 3

(***************************************************************************)
(* Program constants.                                                      *)
(***************************************************************************)
FRAME_OVERLAP == 2
\* the ceiling of setsPerPool in get_pool
MaxSetsPerPool == 4092
\* initialSets of the per-frame allocators (init_descriptors)
FrameInitialSets == 1000
\* the ratio of VK_DESCRIPTOR_TYPE_UNIFORM_BUFFER in frameSizes, in halves
FrameRatio == 6
\* descriptors in _gpuSceneDataDescriptorSetLayout: one uniform buffer
SceneDataLayoutNeed == 1
\* the ratio of VK_DESCRIPTOR_TYPE_COMBINED_IMAGE_SAMPLER in the pool sizes
\* of a loaded scene (load_gltf), in halves
SceneRatio == 6
\* initialSets of _globalDescriptorAllocator (init_descriptors)
GlobalInitialSets == 10
\* combined image samplers in the material layout (build_pipelines)
MaterialLayoutNeed == 2

Slots == 0 .. (FRAME_OVERLAP - 1)

(***************************************************************************)
(* DeletionQueue (vk_engine.h).  A deletor is modelled by the handle it    *)
(* releases; calling it is recorded by appending the handle to a log.      *)
(***************************************************************************)
push_function(deletors, function) == Append(deletors, function)

\* the reverse iteration of flush(): it = rbegin() .. rend(), calling (*it)()
RECURSIVE flush_calls(_, _, _)
flush_calls(deletors, it, called) ==
    IF it = 0 THEN called
    ELSE flush_calls(deletors, it - 1, Append(called, deletors[it]))

\* a forward iteration begin() .. end()
RECURSIVE flush_calls_forward(_, _, _)
flush_calls_forward(deletors, it, called) ==
    IF it > Len(deletors) THEN called
    ELSE flush_calls_forward(deletors, it + 1, Append(called, deletors[it]))

\* flush() that iterates forwards
flush_forward(deletors) ==
    [called |-> flush_calls_forward(deletors, 1, <<>>), deletors |-> <<>>]

\* flush() without the trailing deletors.clear()
flush_noclear(deletors) ==
    [called |-> flush_calls(deletors, Len(deletors), <<>>), deletors |-> deletors]

\* flush(): the calls made, in order, and the deletors left
flush(deletors) ==
    [called |-> flush_calls(deletors, Len(deletors), <<>>), deletors |-> <<>>]

SeqToSet(s) == {s[i] : i \in 1 .. Len(s)}

(***************************************************************************)
(* The descriptor pools of the VkDevice.  device.pools[p] is the pool with *)
(* handle p: its maxSets, the descriptorCount of its pool size, the        *)
(* descriptor sets allocated from it and not reclaimed, the descriptors    *)
(* those sets use, and whether the pool was destroyed.  Descriptor set     *)
(* handles are 1, 2, ...; 0 is VK_NULL_HANDLE.  One descriptor type is     *)
(* modelled; a ratio is held in halves (ratio 1.5 is 3).                   *)
(***************************************************************************)
VK_SUCCESS == "VK_SUCCESS"
VK_ERROR_OUT_OF_POOL_MEMORY == "VK_ERROR_OUT_OF_POOL_MEMORY"
VK_ERROR_FRAGMENTED_POOL == "VK_ERROR_FRAGMENTED_POOL"
VK_ERROR_OUT_OF_HOST_MEMORY == "VK_ERROR_OUT_OF_HOST_MEMORY"

NoDevice == [pools |-> <<>>, nextSet |-> 1]

\* DescriptorAllocatorGrowable{}: a default-constructed allocator
NewAllocator == [ratios |-> 0, fullPools |-> <<>>, readyPools |-> <<>>,
                 setsPerPool |-> 0]

\* vkCreateDescriptorPool, as create_pool calls it: maxSets = setCount,
\* descriptorCount = static_cast<uint32>(ratio * setCount)
create_pool(dev, setCount, poolRatios) ==
    [dev EXCEPT !.pools = Append(@,
        [maxSets |-> setCount,
         descriptorCount |-> (poolRatios * setCount) \div 2,
         sets |-> {},
         descriptorsUsed |-> 0,
         destroyed |-> FALSE])]

\* vkResetDescriptorPool: every set of the pool is reclaimed
vkResetDescriptorPool(dev, pool) ==
    [dev EXCEPT !.pools[pool].sets = {}, !.pools[pool].descriptorsUsed = 0]

\* vkDestroyDescriptorPool
vkDestroyDescriptorPool(dev, pool) ==
    [dev EXCEPT !.pools[pool].sets = {}, !.pools[pool].descriptorsUsed = 0,
                !.pools[pool].destroyed = TRUE]

\* the pool cannot hold one more set of a layout with `need` descriptors
PoolExhausted(dev, pool, need) ==
    \/ Cardinality(dev.pools[pool].sets) >= dev.pools[pool].maxSets
    \/ dev.pools[pool].descriptorsUsed + need > dev.pools[pool].descriptorCount

\* the results vkAllocateDescriptorSets may give for one set of the layout:
\* success or exhaustion as the pool's state decides, and, while the driver
\* may still fault, fragmentation or a host allocation failure
vkAllocateDescriptorSets_results(dev, pool, need, faults) ==
    (IF PoolExhausted(dev, pool, need)
        THEN {VK_ERROR_OUT_OF_POOL_MEMORY} ELSE {VK_SUCCESS})
    \cup (IF faults > 0
            THEN {VK_ERROR_FRAGMENTED_POOL, VK_ERROR_OUT_OF_HOST_MEMORY}
            ELSE {})

IsFault(result) ==
    result \in {VK_ERROR_FRAGMENTED_POOL, VK_ERROR_OUT_OF_HOST_MEMORY}

\* a successful vkAllocateDescriptorSets: the set dev.nextSet now lives in pool
vkAllocateDescriptorSets(dev, pool, need) ==
    [dev EXCEPT !.pools[pool].sets = @ \cup {dev.nextSet},
                !.pools[pool].descriptorsUsed = @ + need,
                !.nextSet = @ + 1]

(***************************************************************************)
(* DescriptorAllocatorGrowable (vk_descriptors.cpp).                       *)
(***************************************************************************)
\* setsPerPool * 1.5 stored back into a uint32: the product is truncated
Grow(n) == (3 * n) \div 2

\* init: the first pool holds initialSets sets; the growth baseline follows
init(a, dev, initialSets, poolRatios) ==
    LET dev1 == create_pool(dev, initialSets, poolRatios)
        newPool == Len(dev1.pools)
    IN [a |-> [a EXCEPT !.ratios = poolRatios,
                        !.setsPerPool = Grow(initialSets),
                        !.readyPools = Append(@, newPool)],
        dev |-> dev1]

\* get_pool that takes a pool of the full list when no pool is ready
get_pool_from_full(a, dev) ==
    IF Len(a.readyPools) > 0
    THEN [pool |-> a.readyPools[Len(a.readyPools)],
          a |-> [a EXCEPT !.readyPools = SubSeq(@, 1, Len(@) - 1)],
          dev |-> dev,
          created |-> FALSE]
    ELSE IF Len(a.fullPools) > 0
    THEN [pool |-> a.fullPools[Len(a.fullPools)],
          a |-> [a EXCEPT !.fullPools = SubSeq(@, 1, Len(@) - 1)],
          dev |-> dev,
          created |-> FALSE]
    ELSE LET dev1 == create_pool(dev, a.setsPerPool, a.ratios)
             grown == Grow(a.setsPerPool)
         IN [pool |-> Len(dev1.pools),
             a |-> [a EXCEPT !.setsPerPool =
                        IF grown > MaxSetsPerPool THEN MaxSetsPerPool ELSE grown],
             dev |-> dev1,
             created |-> TRUE]

\* get_pool that leaves the pool it hands out on the ready list
get_pool_no_pop(a, dev) ==
    IF Len(a.readyPools) > 0
    THEN [pool |-> a.readyPools[Len(a.readyPools)],
          a |-> a,
          dev |-> dev,
          created |-> FALSE]
    ELSE LET dev1 == create_pool(dev, a.setsPerPool, a.ratios)
             grown == Grow(a.setsPerPool)
         IN [pool |-> Len(dev1.pools),
             a |-> [a EXCEPT !.setsPerPool =
                        IF grown > MaxSetsPerPool THEN MaxSetsPerPool ELSE grown],
             dev |-> dev1,
             created |-> TRUE]

\* get_pool: the last ready pool, popped; or a new pool of setsPerPool sets,
\* after which setsPerPool grows by 1.5 and is capped
get_pool(a, dev) ==
    IF Len(a.readyPools) > 0
    THEN [pool |-> a.readyPools[Len(a.readyPools)],
          a |-> [a EXCEPT !.readyPools = SubSeq(@, 1, Len(@) - 1)],
          dev |-> dev,
          created |-> FALSE]
    ELSE LET dev1 == create_pool(dev, a.setsPerPool, a.ratios)
             grown == Grow(a.setsPerPool)
         IN [pool |-> Len(dev1.pools),
             a |-> [a EXCEPT !.setsPerPool =
                        IF grown > MaxSetsPerPool THEN MaxSetsPerPool ELSE grown],
             dev |-> dev1,
             created |-> TRUE]

\* reset_pools: every ready pool is reset; every full pool is reset and
\* pushed onto readyPools; fullPools is cleared
RECURSIVE reset_each(_, _, _)
reset_each(dev, poolList, i) ==
    IF i > Len(poolList) THEN dev
    ELSE reset_each(vkResetDescriptorPool(dev, poolList[i]), poolList, i + 1)

\* reset_pools() that resets the full pools only
reset_pools_ready_not_reset(a, dev) ==
    [a |-> [a EXCEPT !.readyPools = a.readyPools \o a.fullPools,
                     !.fullPools = <<>>],
     dev |-> reset_each(dev, a.fullPools, 1)]

\* reset_pools() that forgets to reset the full pools before making them
\* ready again
reset_pools_full_not_reset(a, dev) ==
    [a |-> [a EXCEPT !.readyPools = a.readyPools \o a.fullPools,
                     !.fullPools = <<>>],
     dev |-> reset_each(dev, a.readyPools, 1)]

reset_pools(a, dev) ==
    [a |-> [a EXCEPT !.readyPools = a.readyPools \o a.fullPools,
                     !.fullPools = <<>>],
     dev |-> reset_each(reset_each(dev, a.readyPools, 1), a.fullPools, 1)]

\* destroy_pools: every ready and every full pool is destroyed; both lists
\* are cleared
RECURSIVE destroy_each(_, _, _)
destroy_each(dev, poolList, i) ==
    IF i > Len(poolList) THEN dev
    ELSE destroy_each(vkDestroyDescriptorPool(dev, poolList[i]), poolList, i + 1)

destroy_pools(a, dev) ==
    [a |-> [a EXCEPT !.readyPools = <<>>, !.fullPools = <<>>],
     dev |-> destroy_each(destroy_each(dev, a.readyPools, 1), a.fullPools, 1)]

\* allocate() that gives up when its first attempt finds the pool exhausted
allocate_first_attempt_only(a, dev, need, r1, r2, garbage) ==
    LET g1 == get_pool(a, dev)
    IN IF r1 = VK_SUCCESS
       THEN [a |-> [g1.a EXCEPT !.readyPools = Append(@, g1.pool)],
             dev |-> vkAllocateDescriptorSets(g1.dev, g1.pool, need),
             set |-> g1.dev.nextSet,
             attempts |-> <<[pool |-> g1.pool, result |-> r1,
                             created |-> g1.created]>>,
             aborted |-> FALSE]
       ELSE [a |-> g1.a,
             dev |-> g1.dev,
             set |-> garbage,
             attempts |-> <<[pool |-> g1.pool, result |-> r1,
                             created |-> g1.created]>>,
             aborted |-> TRUE]

\* allocate() that tries again on any failure of the first attempt and gives
\* up quietly when the second attempt fails as well
allocate_retry_unchecked(a, dev, need, r1, r2, garbage) ==
    LET g1 == get_pool(a, dev)
    IN IF r1 # VK_SUCCESS
       THEN LET aFull == [g1.a EXCEPT !.fullPools = Append(@, g1.pool)]
                g2 == get_pool(aFull, g1.dev)
            IN [a |-> [g2.a EXCEPT !.readyPools = Append(@, g2.pool)],
                dev |-> IF r2 = VK_SUCCESS
                           THEN vkAllocateDescriptorSets(g2.dev, g2.pool, need)
                           ELSE g2.dev,
                set |-> IF r2 = VK_SUCCESS THEN g2.dev.nextSet ELSE garbage,
                attempts |-> <<[pool |-> g1.pool, result |-> r1,
                                created |-> g1.created],
                               [pool |-> g2.pool, result |-> r2,
                                created |-> g2.created]>>,
                aborted |-> FALSE]
       ELSE [a |-> [g1.a EXCEPT !.readyPools = Append(@, g1.pool)],
             dev |-> vkAllocateDescriptorSets(g1.dev, g1.pool, need),
             set |-> g1.dev.nextSet,
             attempts |-> <<[pool |-> g1.pool, result |-> r1,
                             created |-> g1.created]>>,
             aborted |-> FALSE]

\* allocate(): r1 and r2 are the results the driver gives to the first and
\* to the second vkAllocateDescriptorSets call, garbage the value an
\* uninitialised VkDescriptorSet happens to hold.  The record returned holds
\* the allocator and the device afterwards, the set returned, the attempts
\* made (pool, result, whether get_pool created the pool) and whether
\* VK_CHECK called abort().
allocate(a, dev, need, r1, r2, garbage) ==
    LET g1 == get_pool(a, dev)
    IN IF r1 = VK_ERROR_FRAGMENTED_POOL \/ r1 = VK_ERROR_OUT_OF_POOL_MEMORY
       THEN LET aFull == [g1.a EXCEPT !.fullPools = Append(@, g1.pool)]
                g2 == get_pool(aFull, g1.dev)
            IN IF r2 = VK_SUCCESS
               THEN [a |-> [g2.a EXCEPT !.readyPools = Append(@, g2.pool)],
                     dev |-> vkAllocateDescriptorSets(g2.dev, g2.pool, need),
                     set |-> g2.dev.nextSet,
                     attempts |-> <<[pool |-> g1.pool, result |-> r1,
                                     created |-> g1.created],
                                    [pool |-> g2.pool, result |-> r2,
                                     created |-> g2.created]>>,
                     aborted |-> FALSE]
               ELSE [a |-> g2.a,
                     dev |-> g2.dev,
                     set |-> garbage,
                     attempts |-> <<[pool |-> g1.pool, result |-> r1,
                                     created |-> g1.created],
                                    [pool |-> g2.pool, result |-> r2,
                                     created |-> g2.created]>>,
                     aborted |-> TRUE]
       ELSE IF r1 = VK_SUCCESS
       THEN [a |-> [g1.a EXCEPT !.readyPools = Append(@, g1.pool)],
             dev |-> vkAllocateDescriptorSets(g1.dev, g1.pool, need),
             set |-> g1.dev.nextSet,
             attempts |-> <<[pool |-> g1.pool, result |-> r1,
                             created |-> g1.created]>>,
             aborted |-> FALSE]
       ELSE [a |-> [g1.a EXCEPT !.readyPools = Append(@, g1.pool)],
             dev |-> g1.dev,
             set |-> garbage,
             attempts |-> <<[pool |-> g1.pool, result |-> r1,
                             created |-> g1.created]>>,
             aborted |-> FALSE]

\* the allocate() calls made since the last reset_pools(): `cap` is the set
\* count of the pool created last before the reset, `need` the layout of
\* the calls (0 before the first call), `n` their number
NoRun ==
    [active |-> FALSE, cap |-> 0, n |-> 0, need |-> 0, oneLayout |-> TRUE,
     noFault |-> TRUE, allOk |-> TRUE, created |-> FALSE]

RunAfterReset(dev) ==
    [NoRun EXCEPT !.active = TRUE,
                  !.cap = dev.pools[Len(dev.pools)].maxSets]

RunAfterAllocate(run, need, r) ==
    [run EXCEPT !.n = @ + 1,
                !.need = need,
                !.oneLayout = @ /\ (run.need \in {0, need}),
                !.noFault = @ /\ \A i \in 1 .. Len(r.attempts) :
                                    ~IsFault(r.attempts[i].result),
                !.allOk = @ /\ ~r.aborted
                            /\ r.attempts[Len(r.attempts)].result = VK_SUCCESS,
                !.created = @ \/ \E i \in 1 .. Len(r.attempts) :
                                    r.attempts[i].created]

\* the number of driver faults among the results of the attempts made
FaultsIn(attempts) ==
    Cardinality({i \in 1 .. Len(attempts) : IsFault(attempts[i].result)})

\* every way one allocate() call can go: the driver picks the result of each
\* vkAllocateDescriptorSets call among those the pool's state allows
AllocateOutcomes(a, dev, need, faults) ==
    LET g1 == get_pool(a, dev)
        R1 == vkAllocateDescriptorSets_results(g1.dev, g1.pool, need, faults)
    IN UNION {
         LET aFull == [g1.a EXCEPT !.fullPools = Append(@, g1.pool)]
             g2 == get_pool(aFull, g1.dev)
             left == IF IsFault(r1) THEN faults - 1 ELSE faults
             R2 == vkAllocateDescriptorSets_results(g2.dev, g2.pool, need, left)
         IN { allocate(a, dev, need, r1, r2, garbage) :
                r2 \in R2, garbage \in 0 .. (dev.nextSet - 1) }
         : r1 \in R1 }

(***************************************************************************)
(* The state of a subsystem that a specification does not drive.           *)
(***************************************************************************)
FrameIdle ==
    /\ pc = "off"
    /\ frameNumber = 0
    /\ resizeRequested = FALSE
    /\ curSlot = 0
    /\ renderFence = [s \in Slots |-> TRUE]
    /\ frameDeletors = [s \in Slots |-> <<>>]
    /\ frameAlloc = [s \in Slots |-> NewAllocator]
    /\ gpuQueue = <<>>
    /\ liveBuffers = {}
    /\ curBuf = 0
    /\ curSet = [handle |-> 0, allocated |-> FALSE]
    /\ callLog = <<>>
    /\ lastSlot = -1
    /\ dropped = 0
    /\ abortCause = ""
    /\ frameFaults = 0
    /\ waitResult = "none"
    /\ acquireResult = "none"
    /\ presentResult = "none"
    /\ swapchainSemaphore = [s \in Slots |-> [pending |-> 0, signaled |-> 0]]
    /\ renderSemaphore = [s \in Slots |-> 0]
    /\ presentQueue = <<>>
    /\ lastPresented = [frame |-> 0, after |-> 0]
    /\ fenceBy = [s \in Slots |-> 0]

DQIdle ==
    /\ dq = <<>>
    /\ dqExecuted = <<>>
    /\ dqBatch = <<>>
    /\ dqLast = <<>>
    /\ dqOp = "none"
    /\ dqPrev = "none"
    /\ dqPushes = 0

AllocIdle ==
    /\ alloc = NewAllocator
    /\ allocLog = <<>>
    /\ allocPre = NewAllocator
    /\ allocState = "uninit"
    /\ allocCalls = 0
    /\ allocResets = 0
    /\ allocFaults = 0
    /\ allocRun = NoRun
    /\ sceneMaterials = 0

Vec3Zero == <<0, 0, 0>>
\* glm::mat4(1.0f), kept as its 3x3 part m (rows) and its translation t
Mat4Identity == [m |-> <<<<1, 0, 0>>, <<0, 1, 0>>, <<0, 0, 1>>>>, t |-> Vec3Zero]

CullIdle ==
    /\ cullObj = [bounds |-> [origin |-> Vec3Zero, extents |-> Vec3Zero],
                  transform |-> Mat4Identity]
    /\ cullPlanes = <<>>
    /\ cullView = Mat4Identity
    /\ cullResult = "none"

DrawIdle ==
    /\ surfaces = <<>>
    /\ OpaqueDrawData = <<>>
    /\ TransparentDrawData = <<>>
    /\ opaque_draws = <<>>
    /\ transparent_draws = <<>>
    /\ cmd = <<>>
    /\ drawStage = "off"

GeomIdle == CullIdle /\ DrawIdle

NodeIdle ==
    /\ nodes = <<>>
    /\ topNodes = <<>>
    /\ nodeObj = <<>>
    /\ drawContext = [OpaqueDrawData |-> <<>>, TransparentDrawData |-> <<>>]
    /\ topMatrix = Mat4Identity
    /\ nodeStage = "off"
    /\ nodeDeletes = 0

\* no upload is under way
NoCaller == [fn |-> "none", mipmapped |-> FALSE]

ImmIdle ==
    /\ immPc = "off"
    /\ immCaller = NoCaller
    /\ immFence = TRUE
    /\ immCommandBuffer = <<>>
    /\ immQueue = <<>>
    /\ immPending = FALSE
    /\ stagingBuffers = {}
    /\ immStaging = 0
    /\ uploaded = <<>>

AssetIdle == NodeIdle /\ ImmIdle

EngineIdle ==
    /\ stop_rendering = FALSE
    /\ destroyCount = <<>>
    /\ mainDeletionQueue = <<>>
    /\ loadedScenes = <<>>
    /\ cleanupLog = <<>>

(***************************************************************************)
(* SpecDQ: one DeletionQueue.  The deletor pushed by the n-th push_function *)
(* call is [id |-> n, handle |-> h]: every pushed action is distinct.       *)
(***************************************************************************)
DQHandles == {"buffer", "image"}

DQInit ==
    /\ DQIdle
    /\ AssetIdle
    /\ FrameIdle
    /\ EngineIdle
    /\ AllocIdle
    /\ GeomIdle
    /\ device = NoDevice

DQPush ==
    /\ dqPushes < MaxPush
    /\ \E h \in DQHandles :
         dq' = push_function(dq, [id |-> dqPushes + 1, handle |-> h])
    /\ dqPushes' = dqPushes + 1
    /\ dqOp' = "push"
    /\ dqPrev' = dqOp
    /\ UNCHANGED <<dqExecuted, dqBatch, dqLast>>
    /\ UNCHANGED <<frameVars, engineVars, allocVars, device, geomVars, assetVars>>

DQFlush ==
    /\ LET r == flush(dq)
       IN /\ dq' = r.deletors
          /\ dqLast' = r.called
          /\ dqExecuted' = dqExecuted \o r.called
    /\ dqBatch' = dq
    /\ dqOp' = "flush"
    /\ dqPrev' = dqOp
    /\ UNCHANGED dqPushes
    /\ UNCHANGED <<frameVars, engineVars, allocVars, device, geomVars, assetVars>>

DQNext == DQPush \/ DQFlush

SpecDQ == DQInit /\ [][DQNext]_vars

(***************************************************************************)
(* SpecAlloc: one DescriptorAllocatorGrowable.  init is called with an     *)
(* initial set count and a ratio (in halves); every allocate() asks for    *)
(* one set of a layout that needs 1 or 2 descriptors.                      *)
(***************************************************************************)
InitialSetChoices == {1, 2, 3, 3000}
RatioChoices == {1, 2, 4}
LayoutNeeds == {1, 2}

AllocSpecInit ==
    /\ AllocIdle
    /\ GeomIdle
    /\ FrameIdle
    /\ EngineIdle
    /\ DQIdle
    /\ AssetIdle
    /\ device = NoDevice

AllocInit ==
    /\ allocState = "uninit"
    /\ \E initialSets \in InitialSetChoices, poolRatios \in RatioChoices,
          faults \in 0 .. MaxAllocFaults :
         LET r == init(alloc, device, initialSets, poolRatios)
         IN /\ alloc' = r.a
            /\ device' = r.dev
            /\ allocFaults' = faults
    /\ allocState' = "ready"
    /\ allocLog' = <<>>
    /\ UNCHANGED <<allocPre, allocCalls, allocResets, allocRun, sceneMaterials>>
    /\ UNCHANGED <<frameVars, engineVars, dqVars, assetVars, geomVars>>

AllocAllocate ==
    /\ allocState = "ready"
    /\ allocCalls < MaxAllocCalls
    /\ \E need \in LayoutNeeds :
         \E r \in AllocateOutcomes(alloc, device, need, allocFaults) :
            /\ alloc' = r.a
            /\ device' = r.dev
            /\ allocLog' = r.attempts
            /\ allocFaults' = allocFaults - FaultsIn(r.attempts)
            /\ allocState' = IF r.aborted THEN "aborted" ELSE "ready"
            /\ allocRun' = IF allocRun.active
                            THEN RunAfterAllocate(allocRun, need, r)
                            ELSE allocRun
    /\ allocPre' = alloc
    /\ allocCalls' = allocCalls + 1
    /\ UNCHANGED <<allocResets, sceneMaterials>>
    /\ UNCHANGED <<frameVars, engineVars, dqVars, assetVars, geomVars>>

AllocResetPools ==
    /\ allocState = "ready"
    /\ allocResets < MaxResets
    /\ LET r == reset_pools(alloc, device)
       IN /\ alloc' = r.a
          /\ device' = r.dev
    /\ allocLog' = <<>>
    /\ allocResets' = allocResets + 1
    /\ allocRun' = RunAfterReset(device)
    /\ UNCHANGED <<allocPre, allocState, allocCalls, allocFaults, sceneMaterials>>
    /\ UNCHANGED <<frameVars, engineVars, dqVars, assetVars, geomVars>>

AllocDestroyPools ==
    /\ allocState = "ready"
    /\ LET r == destroy_pools(alloc, device)
       IN /\ alloc' = r.a
          /\ device' = r.dev
    /\ allocLog' = <<>>
    /\ allocState' = "destroyed"
    /\ UNCHANGED <<allocPre, allocCalls, allocResets, allocFaults, allocRun,
                   sceneMaterials>>
    /\ UNCHANGED <<frameVars, engineVars, dqVars, assetVars, geomVars>>

AllocNext == AllocInit \/ AllocAllocate \/ AllocResetPools \/ AllocDestroyPools

SpecAlloc == AllocSpecInit /\ [][AllocNext]_vars

(***************************************************************************)
(* SpecScene: one LoadedGLTF.  load_gltf() initializes the scene's          *)
(* descriptorPool for gltf.materials.size() sets and calls write_material() *)
(* once per material; clearAll() unloads the scene.  allocCalls counts the  *)
(* materials written so far.                                                *)
(***************************************************************************)
\* write_material receives the allocator by value: allocate() runs on a copy
\* of the caller's allocator, and the copy is dropped on return; the calls
\* made on the device stay
write_material(a, dev, r1, r2, garbage) ==
    LET descriptorAllocator == a
        r == allocate(descriptorAllocator, dev, MaterialLayoutNeed, r1, r2,
                      garbage)
    IN [a |-> a, dev |-> r.dev, set |-> r.set, attempts |-> r.attempts,
        aborted |-> r.aborted]

\* every way one write_material() call can go
WriteMaterialOutcomes(a, dev, faults) ==
    LET g1 == get_pool(a, dev)
        R1 == vkAllocateDescriptorSets_results(g1.dev, g1.pool,
                                               MaterialLayoutNeed, faults)
    IN UNION {
         LET aFull == [g1.a EXCEPT !.fullPools = Append(@, g1.pool)]
             g2 == get_pool(aFull, g1.dev)
             left == IF IsFault(r1) THEN faults - 1 ELSE faults
             R2 == vkAllocateDescriptorSets_results(g2.dev, g2.pool,
                                                    MaterialLayoutNeed, left)
         IN { write_material(a, dev, r1, r2, garbage) :
                r2 \in R2, garbage \in 0 .. (dev.nextSet - 1) }
         : r1 \in R1 }

SceneSpecInit ==
    /\ AllocIdle
    /\ GeomIdle
    /\ FrameIdle
    /\ EngineIdle
    /\ DQIdle
    /\ AssetIdle
    /\ device = NoDevice

SceneLoad ==
    /\ allocState = "uninit"
    /\ \E materials \in 1 .. MaxMaterials, faults \in 0 .. MaxAllocFaults :
         LET r == init(alloc, device, materials, SceneRatio)
         IN /\ alloc' = r.a
            /\ device' = r.dev
            /\ allocFaults' = faults
            /\ sceneMaterials' = materials
    /\ allocState' = "ready"
    /\ allocLog' = <<>>
    /\ UNCHANGED <<allocPre, allocCalls, allocResets, allocRun>>
    /\ UNCHANGED <<frameVars, engineVars, dqVars, assetVars, geomVars>>

SceneWriteMaterial ==
    /\ allocState = "ready"
    /\ allocCalls < sceneMaterials
    /\ \E r \in WriteMaterialOutcomes(alloc, device, allocFaults) :
         /\ alloc' = r.a
         /\ device' = r.dev
         /\ allocLog' = r.attempts
         /\ allocFaults' = allocFaults - FaultsIn(r.attempts)
         /\ allocState' = IF r.aborted THEN "aborted" ELSE "ready"
    /\ allocPre' = alloc
    /\ allocCalls' = allocCalls + 1
    /\ UNCHANGED <<allocResets, allocRun, sceneMaterials>>
    /\ UNCHANGED <<frameVars, engineVars, dqVars, assetVars, geomVars>>

SceneClearAll ==
    /\ allocState = "ready"
    /\ allocCalls = sceneMaterials
    /\ LET r == destroy_pools(alloc, device)
       IN /\ alloc' = r.a
          /\ device' = r.dev
    /\ allocLog' = <<>>
    /\ allocState' = "destroyed"
    /\ UNCHANGED <<allocPre, allocCalls, allocResets, allocFaults, allocRun,
                   sceneMaterials>>
    /\ UNCHANGED <<frameVars, engineVars, dqVars, assetVars, geomVars>>

SceneNext == SceneLoad \/ SceneWriteMaterial \/ SceneClearAll

SpecScene == SceneSpecInit /\ [][SceneNext]_vars

(***************************************************************************)
(* SpecGrow: a pool-set initialized for 10 sets, as the engine's global     *)
(* allocator is, with a ratio that covers the layout asked for, serving     *)
(* allocate() calls one after the other; the driver fails an allocation     *)
(* only when the pool is exhausted.                                         *)
(***************************************************************************)
GenerousRatios == {2, 4}
\* the largest layout a ratio covers: ratio (in halves) / 2 descriptors
LayoutCovered(poolRatios) == poolRatios \div 2

GrowSpecInit ==
    /\ AllocIdle
    /\ GeomIdle
    /\ FrameIdle
    /\ EngineIdle
    /\ DQIdle
    /\ AssetIdle
    /\ device = NoDevice

GrowInit ==
    /\ allocState = "uninit"
    /\ \E poolRatios \in GenerousRatios :
         LET r == init(alloc, device, GlobalInitialSets, poolRatios)
         IN /\ alloc' = r.a
            /\ device' = r.dev
            /\ allocRun' = [NoRun EXCEPT !.active = TRUE,
                                         !.cap = GlobalInitialSets]
    /\ allocState' = "ready"
    /\ allocLog' = <<>>
    /\ UNCHANGED <<allocPre, allocCalls, allocResets, allocFaults,
                   sceneMaterials>>
    /\ UNCHANGED <<frameVars, engineVars, dqVars, assetVars, geomVars>>

GrowAllocate ==
    /\ allocState = "ready"
    /\ allocCalls < ManyAllocations
    /\ LET need == LayoutCovered(alloc.ratios)
           g1 == get_pool(alloc, device)
           aFull == [g1.a EXCEPT !.fullPools = Append(@, g1.pool)]
           g2 == get_pool(aFull, g1.dev)
       IN \E r1 \in vkAllocateDescriptorSets_results(g1.dev, g1.pool, need, 0),
             r2 \in vkAllocateDescriptorSets_results(g2.dev, g2.pool, need, 0) :
            LET r == allocate(alloc, device, need, r1, r2, 0)
            IN /\ alloc' = r.a
               /\ device' = r.dev
               /\ allocLog' = r.attempts
               /\ allocState' = IF r.aborted THEN "aborted" ELSE "ready"
               /\ allocRun' = RunAfterAllocate(allocRun, need, r)
    /\ allocPre' = alloc
    /\ allocCalls' = allocCalls + 1
    /\ UNCHANGED <<allocResets, allocFaults, sceneMaterials>>
    /\ UNCHANGED <<frameVars, engineVars, dqVars, assetVars, geomVars>>

GrowNext == GrowInit \/ GrowAllocate

SpecGrow == GrowSpecInit /\ [][GrowNext]_vars

(***************************************************************************)
(* is_in_frustum, over integers.  A vec3 is a triple; an affine glm::mat4   *)
(* is its 3x3 part m, a triple of rows, and its translation t.             *)
(***************************************************************************)
Abs(x) == IF x < 0 THEN -x ELSE x
Dot(u, v) == u[1] * v[1] + u[2] * v[2] + u[3] * v[3]
Vec3Add(u, v) == <<u[1] + v[1], u[2] + v[2], u[3] + v[3]>>
Vec3Abs(u) == <<Abs(u[1]), Abs(u[2]), Abs(u[3])>>
\* the 3x3 matrix m applied to the vector v
Mat3MulVec(m, v) == <<Dot(m[1], v), Dot(m[2], v), Dot(m[3], v)>>
Mat3Column(m, j) == <<m[1][j], m[2][j], m[3][j]>>
Mat3Mul(a, b) ==
    <<<<Dot(a[1], Mat3Column(b, 1)), Dot(a[1], Mat3Column(b, 2)),
        Dot(a[1], Mat3Column(b, 3))>>,
      <<Dot(a[2], Mat3Column(b, 1)), Dot(a[2], Mat3Column(b, 2)),
        Dot(a[2], Mat3Column(b, 3))>>,
      <<Dot(a[3], Mat3Column(b, 1)), Dot(a[3], Mat3Column(b, 2)),
        Dot(a[3], Mat3Column(b, 3))>>>>
\* the product a * b of two affine matrices
Mat4Mul(a, b) ==
    [m |-> Mat3Mul(a.m, b.m), t |-> Vec3Add(Mat3MulVec(a.m, b.t), a.t)]
\* glm::vec3(mat * glm::vec4(p, 1.0f))
TransformPoint(mat, p) == Vec3Add(Mat3MulVec(mat.m, p), mat.t)

\* is_in_frustum that tests the bounds origin without transforming it to
\* view space
is_in_frustum_untransformed(obj, planes, view) ==
    LET objectToView == Mat4Mul(view, obj.transform)
        center_vs == obj.bounds.origin
        absRotScale == <<Vec3Abs(objectToView.m[1]), Vec3Abs(objectToView.m[2]),
                         Vec3Abs(objectToView.m[3])>>
        ext_vs == Mat3MulVec(absRotScale, obj.bounds.extents)
    IN \A k \in 1 .. Len(planes) :
          LET r == Dot(ext_vs, Vec3Abs(planes[k].normal))
              d == Dot(planes[k].normal, center_vs) + planes[k].d
          IN ~(d + r < 0)

\* is_in_frustum that also rejects when d + r is zero
is_in_frustum_rejects_tangent(obj, planes, view) ==
    LET objectToView == Mat4Mul(view, obj.transform)
        center_vs == TransformPoint(objectToView, obj.bounds.origin)
        absRotScale == <<Vec3Abs(objectToView.m[1]), Vec3Abs(objectToView.m[2]),
                         Vec3Abs(objectToView.m[3])>>
        ext_vs == Mat3MulVec(absRotScale, obj.bounds.extents)
    IN \A k \in 1 .. Len(planes) :
          LET r == Dot(ext_vs, Vec3Abs(planes[k].normal))
              d == Dot(planes[k].normal, center_vs) + planes[k].d
          IN ~(d + r <= 0)

\* is_in_frustum: the loop returns false at the first plane with d + r < 0
\* and true when there is none.  absRotScale, built from the absolute
\* columns of objectToView, has the absolute rows of its 3x3 part as rows.
is_in_frustum(obj, planes, view) ==
    LET objectToView == Mat4Mul(view, obj.transform)
        center_vs == TransformPoint(objectToView, obj.bounds.origin)
        absRotScale == <<Vec3Abs(objectToView.m[1]), Vec3Abs(objectToView.m[2]),
                         Vec3Abs(objectToView.m[3])>>
        ext_vs == Mat3MulVec(absRotScale, obj.bounds.extents)
    IN \A k \in 1 .. Len(planes) :
          LET r == Dot(ext_vs, Vec3Abs(planes[k].normal))
              d == Dot(planes[k].normal, center_vs) + planes[k].d
          IN ~(d + r < 0)

(***************************************************************************)
(* SpecCull: is_in_frustum applied to one RenderObject.  The bounds origin  *)
(* has integer coordinates up to MaxCoord, the extents, the object          *)
(* transform and the view matrix come from small sets (scalings, quarter    *)
(* turns, a mirror, translations), and the six planes have axis-aligned     *)
(* normals, one per direction, each with its own offset.                    *)
(***************************************************************************)
Coords == (0 - MaxCoord) .. MaxCoord
OriginChoices == {<<x, y, z>> : x \in Coords, y \in Coords, z \in Coords}
ExtentChoices == {<<0, 0, 0>>, <<1, 1, 1>>, <<1, 0, 2>>}
TransformChoices ==
    { Mat4Identity,
      [m |-> <<<<0, -2, 0>>, <<2, 0, 0>>, <<0, 0, 2>>>>, t |-> <<1, 0, 0>>],
      [m |-> <<<<-1, 0, 0>>, <<0, 1, 0>>, <<0, 0, 1>>>>, t |-> <<0, 0, -1>>] }
ViewChoices ==
    { Mat4Identity,
      [m |-> <<<<0, 0, 1>>, <<0, 1, 0>>, <<-1, 0, 0>>>>, t |-> <<0, 0, -1>>] }
PlaneNormals ==
    << <<1, 0, 0>>, <<-1, 0, 0>>, <<0, 1, 0>>, <<0, -1, 0>>,
       <<0, 0, 1>>, <<0, 0, -1>> >>
PlaneOffsets == << {0, 2}, {0, 2}, {1, 2}, {2}, {4}, {-1, 0} >>
FrustumChoices ==
    { << [normal |-> PlaneNormals[1], d |-> d1],
         [normal |-> PlaneNormals[2], d |-> d2],
         [normal |-> PlaneNormals[3], d |-> d3],
         [normal |-> PlaneNormals[4], d |-> d4],
         [normal |-> PlaneNormals[5], d |-> d5],
         [normal |-> PlaneNormals[6], d |-> d6] >> :
        d1 \in PlaneOffsets[1], d2 \in PlaneOffsets[2], d3 \in PlaneOffsets[3],
        d4 \in PlaneOffsets[4], d5 \in PlaneOffsets[5], d6 \in PlaneOffsets[6] }

CullSpecInit ==
    /\ FrameIdle
    /\ EngineIdle
    /\ DQIdle
    /\ AssetIdle
    /\ AllocIdle
    /\ device = NoDevice
    /\ DrawIdle
    /\ cullObj \in [bounds : [origin : OriginChoices, extents : ExtentChoices],
                    transform : TransformChoices]
    /\ cullPlanes \in FrustumChoices
    /\ cullView \in ViewChoices
    /\ cullResult = "none"

CullTest ==
    /\ cullResult = "none"
    /\ cullResult' = IF is_in_frustum(cullObj, cullPlanes, cullView)
                     THEN "kept" ELSE "culled"
    /\ UNCHANGED <<cullObj, cullPlanes, cullView>>
    /\ UNCHANGED <<frameVars, engineVars, dqVars, assetVars, allocVars, device, drawVars>>

CullNext == CullTest

SpecCull == CullSpecInit /\ [][CullNext]_vars

(***************************************************************************)
(* SpecDraw: the culling and sorting of draw_geometry, step by step in the  *)
(* order of its body.  update_render_scene() has filled OpaqueDrawData;     *)
(* the objects differ in material (pipeline and descriptor set, compared    *)
(* by identity), index buffer and position (inside or outside the           *)
(* frustum).  Indices count from 1 here and from 0 in the code.             *)
(***************************************************************************)
AlphaModes == {"Opaque", "Masked", "Transparent"}
IndexBufferIds == {1, 2}
\* the pipeline write_material picks for an alpha mode: opaquePipeline (1),
\* maskedPipeline (2) or transparentPipeline (3)
material_pipeline(alphaMode) ==
    IF alphaMode = "Transparent" THEN 3
    ELSE IF alphaMode = "Masked" THEN 2
    ELSE 1
PipelineIds == { material_pipeline(a) : a \in AlphaModes }
\* build_pipelines gives the three pipelines one layout
pipeline_layout(pipeline) == "newLayout"
\* the materials of the scene, each with the descriptor set write_material
\* allocated for it: two opaque, one masked, two transparent
Materials ==
    { [pipeline |-> material_pipeline(ms[1]), descriptorSet |-> ms[2],
       alphaMode |-> ms[1]] :
        ms \in { <<"Opaque", 1>>, <<"Opaque", 2>>, <<"Masked", 3>>,
                 <<"Transparent", 4>>, <<"Transparent", 5>> } }
\* _mainCamera.position as init() sets it
cameraPosition == <<0, 0, 5>>
Vec3Sub(u, v) == <<u[1] - v[1], u[2] - v[2], u[3] - v[3]>>
\* getViewMatrix() of a camera that has not been rotated: the inverse of the
\* translation to the camera position
DrawView == [m |-> Mat4Identity.m, t |-> Vec3Sub(Vec3Zero, cameraPosition)]
\* the frustum in view space: 4 to each side, from 1 to 20 in front
DrawFrustum ==
    << [normal |-> PlaneNormals[1], d |-> 4],
       [normal |-> PlaneNormals[2], d |-> 4],
       [normal |-> PlaneNormals[3], d |-> 4],
       [normal |-> PlaneNormals[4], d |-> 4],
       [normal |-> PlaneNormals[5], d |-> 20],
       [normal |-> PlaneNormals[6], d |-> -1] >>
\* world translations of the nodes: three in front of the camera, two of
\* them at one distance from it, and one behind it
DrawTranslations == {<<0, 0, 0>>, <<3, 0, 1>>, <<0, 0, -10>>, <<0, 0, 10>>}
\* the render objects gather_draw_data can build from the scene: the opaque
\* and masked meshes stand at the origin, one opaque mesh behind the camera;
\* the transparent meshes share one index buffer
RenderObjects ==
    { r \in [material : Materials,
             indexBuffer : IndexBufferIds,
             bounds : [origin : {Vec3Zero}, extents : {<<1, 1, 1>>}],
             transform : [m : {Mat4Identity.m}, t : DrawTranslations]] :
        IF r.material.alphaMode = "Transparent"
        THEN /\ r.indexBuffer = 1
             /\ r.transform.t # <<0, 0, 0>> => r.material.descriptorSet = 4
        ELSE /\ r.transform.t \in {<<0, 0, 0>>, <<0, 0, 10>>}
             /\ r.transform.t = <<0, 0, 10>> =>
                    r.material.descriptorSet = 1 /\ r.indexBuffer = 1 }

\* gather_draw_data over the surfaces from index i on: a surface with a
\* transparent material is pushed onto TransparentDrawData, any other onto
\* OpaqueDrawData
RECURSIVE gather_draw_data(_, _, _)
gather_draw_data(meshSurfaces, i, ctx) ==
    IF i > Len(meshSurfaces) THEN ctx
    ELSE gather_draw_data(meshSurfaces, i + 1,
             IF meshSurfaces[i].material.alphaMode = "Transparent"
             THEN [ctx EXCEPT !.TransparentDrawData = Append(@, meshSurfaces[i])]
             ELSE [ctx EXCEPT !.OpaqueDrawData = Append(@, meshSurfaces[i])])

\* the loop that pushes the index of every object in the frustum, from
\* index i on, onto draws
RECURSIVE cull_draws(_, _, _)
cull_draws(data, i, draws) ==
    IF i > Len(data) THEN draws
    ELSE cull_draws(data, i + 1,
                    IF is_in_frustum(data[i], DrawFrustum, DrawView)
                    THEN Append(draws, i) ELSE draws)

\* the comparator of the opaque sort, without the descriptor set
opaque_less_no_descriptor_set(data, iA, iB) ==
    LET A == data[iA]
        B == data[iB]
    IN IF A.material.pipeline # B.material.pipeline
       THEN A.material.pipeline < B.material.pipeline
       ELSE A.indexBuffer < B.indexBuffer

\* the comparator of the opaque sort, without the index buffer
opaque_less_no_index_buffer(data, iA, iB) ==
    LET A == data[iA]
        B == data[iB]
    IN IF A.material.pipeline # B.material.pipeline
       THEN A.material.pipeline < B.material.pipeline
       ELSE A.material.descriptorSet < B.material.descriptorSet

\* the comparator of the opaque sort
opaque_less(data, iA, iB) ==
    LET A == data[iA]
        B == data[iB]
    IN IF A.material.pipeline # B.material.pipeline
       THEN A.material.pipeline < B.material.pipeline
       ELSE IF A.material.descriptorSet # B.material.descriptorSet
       THEN A.material.descriptorSet < B.material.descriptorSet
       ELSE A.indexBuffer < B.indexBuffer

\* the square of glm::length(v); the comparator compares lengths, and the
\* square root keeps the order of the squares
Length2(v) == Dot(v, v)

\* the comparator of the transparent sort, the nearer object first
transparent_farther_nearer_first(data, iA, iB) ==
    LET A == data[iA]
        B == data[iB]
    IN Length2(Vec3Sub(A.transform.t, cameraPosition))
           < Length2(Vec3Sub(B.transform.t, cameraPosition))

\* the comparator of the transparent sort, comparing the x coordinates of
\* the translations only
transparent_farther_by_x(data, iA, iB) ==
    LET A == data[iA]
        B == data[iB]
    IN A.transform.t[1] > B.transform.t[1]

\* the comparator of the transparent sort: A goes first when its
\* translation is farther from the camera position than that of B
transparent_farther(data, iA, iB) ==
    LET A == data[iA]
        B == data[iB]
    IN Length2(Vec3Sub(A.transform.t, cameraPosition))
           > Length2(Vec3Sub(B.transform.t, cameraPosition))

\* the rearrangements of a sequence of distinct elements
PermutationsOf(seq) ==
    { p \in [1 .. Len(seq) -> SeqToSet(seq)] :
        \A i, j \in 1 .. Len(seq) : i # j => p[i] # p[j] }

\* std::sort: the range ends up as a rearrangement in which no element is
\* less than an element before it; the order of elements neither of which
\* is less than the other is left to the implementation.  The comparator
\* is given as the set of pairs <<a, b>> for which it returns true.
std_sort(seq, less) ==
    { p \in PermutationsOf(seq) :
        \A i, j \in 1 .. Len(seq) : i < j => <<p[j], p[i]>> \notin less }

\* lastMaterial = nullptr and lastIndexBuffer = VK_NULL_HANDLE
NoMaterial == [pipeline |-> 0, descriptorSet |-> 0, alphaMode |-> "none"]
NoIndexBuffer == 0
Command(op, arg) == [op |-> op, arg |-> arg]
\* vkCmdBindPipeline at a bind point
BindPipeline(bindPoint, pipeline) ==
    Command("vkCmdBindPipeline", [bindPoint |-> bindPoint, pipeline |-> pipeline])
\* vkCmdBindDescriptorSets of one set, as set number firstSet of a bind point
BindDescriptorSets(bindPoint, firstSet, set) ==
    Command("vkCmdBindDescriptorSets",
            [bindPoint |-> bindPoint, firstSet |-> firstSet, set |-> set])

\* the draw lambda binding the pipeline for every draw
draw_binds_every_pipeline(st, r) ==
    LET last == st.lastMaterial
        c1 == Append(st.cmd, BindPipeline("graphics", r.material.pipeline))
        c2 == IF r.material = last THEN c1
              ELSE IF \/ last = NoMaterial
                      \/ pipeline_layout(r.material.pipeline)
                             # pipeline_layout(last.pipeline)
              THEN c1 \o << BindDescriptorSets("graphics", 0,
                                               "sceneDataDescriptorSet"),
                            BindDescriptorSets("graphics", 1,
                                               r.material.descriptorSet) >>
              ELSE IF \/ last = NoMaterial
                      \/ r.material.descriptorSet # last.descriptorSet
              THEN Append(c1, BindDescriptorSets("graphics", 1,
                                                 r.material.descriptorSet))
              ELSE c1
        c3 == IF r.indexBuffer # st.lastIndexBuffer
              THEN Append(c2, Command("vkCmdBindIndexBuffer", r.indexBuffer))
              ELSE c2
    IN [cmd |-> c3 \o << Command("vkCmdPushConstants", r.transform),
                         Command("vkCmdDrawIndexed", r) >>,
        lastMaterial |-> r.material,
        lastIndexBuffer |-> r.indexBuffer]

\* the draw lambda binding the material's descriptor set only together with
\* the scene-data set
draw_keeps_material_set(st, r) ==
    LET last == st.lastMaterial
        c1 == IF r.material = last THEN st.cmd
              ELSE IF last = NoMaterial \/ r.material.pipeline # last.pipeline
              THEN Append(st.cmd, BindPipeline("graphics", r.material.pipeline))
              ELSE st.cmd
        c2 == IF r.material = last THEN c1
              ELSE IF \/ last = NoMaterial
                      \/ pipeline_layout(r.material.pipeline)
                             # pipeline_layout(last.pipeline)
              THEN c1 \o << BindDescriptorSets("graphics", 0,
                                               "sceneDataDescriptorSet"),
                            BindDescriptorSets("graphics", 1,
                                               r.material.descriptorSet) >>
              ELSE c1
        c3 == IF r.indexBuffer # st.lastIndexBuffer
              THEN Append(c2, Command("vkCmdBindIndexBuffer", r.indexBuffer))
              ELSE c2
    IN [cmd |-> c3 \o << Command("vkCmdPushConstants", r.transform),
                         Command("vkCmdDrawIndexed", r) >>,
        lastMaterial |-> r.material,
        lastIndexBuffer |-> r.indexBuffer]

\* the draw lambda of draw_geometry: st holds the command buffer and the
\* two variables defined outside the lambda, r is the render object
draw(st, r) ==
    LET last == st.lastMaterial
        c1 == IF r.material = last THEN st.cmd
              ELSE IF last = NoMaterial \/ r.material.pipeline # last.pipeline
              THEN Append(st.cmd, BindPipeline("graphics", r.material.pipeline))
              ELSE st.cmd
        c2 == IF r.material = last THEN c1
              ELSE IF \/ last = NoMaterial
                      \/ pipeline_layout(r.material.pipeline)
                             # pipeline_layout(last.pipeline)
              THEN c1 \o << BindDescriptorSets("graphics", 0,
                                               "sceneDataDescriptorSet"),
                            BindDescriptorSets("graphics", 1,
                                               r.material.descriptorSet) >>
              ELSE IF \/ last = NoMaterial
                      \/ r.material.descriptorSet # last.descriptorSet
              THEN Append(c1, BindDescriptorSets("graphics", 1,
                                                 r.material.descriptorSet))
              ELSE c1
        c3 == IF r.indexBuffer # st.lastIndexBuffer
              THEN Append(c2, Command("vkCmdBindIndexBuffer", r.indexBuffer))
              ELSE c2
    IN [cmd |-> c3 \o << Command("vkCmdPushConstants", r.transform),
                         Command("vkCmdDrawIndexed", r) >>,
        lastMaterial |-> r.material,
        lastIndexBuffer |-> r.indexBuffer]

\* the loop that draws the objects of data in the order of draws, from
\* position k on
RECURSIVE draw_all(_, _, _, _)
draw_all(st, data, draws, k) ==
    IF k > Len(draws) THEN st
    ELSE draw_all(draw(st, data[draws[k]]), data, draws, k + 1)

DrawSpecInit ==
    /\ FrameIdle
    /\ EngineIdle
    /\ DQIdle
    /\ AssetIdle
    /\ AllocIdle
    /\ device = NoDevice
    /\ CullIdle
    /\ \E n \in 0 .. MaxObjects : surfaces \in [1 .. n -> RenderObjects]
    /\ OpaqueDrawData = <<>>
    /\ TransparentDrawData = <<>>
    /\ opaque_draws = <<>>
    /\ transparent_draws = <<>>
    /\ cmd = <<>>
    /\ drawStage = "update"

\* update_render_scene: the scene's surfaces are gathered into the lists
DrawGather ==
    /\ drawStage = "update"
    /\ LET ctx == gather_draw_data(surfaces, 1,
                      [OpaqueDrawData |-> OpaqueDrawData,
                       TransparentDrawData |-> TransparentDrawData])
       IN /\ OpaqueDrawData' = ctx.OpaqueDrawData
          /\ TransparentDrawData' = ctx.TransparentDrawData
    /\ drawStage' = "gather"
    /\ UNCHANGED <<surfaces, opaque_draws, transparent_draws, cmd>>
    /\ UNCHANGED <<frameVars, engineVars, dqVars, assetVars, allocVars, device, cullVars>>

\* draw_background: the compute dispatch that fills the draw image
DrawBackground ==
    /\ drawStage = "gather"
    /\ cmd' = cmd \o << BindPipeline("compute", "effect.pipeline"),
                        BindDescriptorSets("compute", 0,
                                           "_backgroundDescriptorSet"),
                        Command("vkCmdPushConstants", "compute"),
                        Command("vkCmdDispatch", "background") >>
    /\ drawStage' = "geometry"
    /\ UNCHANGED <<surfaces, OpaqueDrawData, TransparentDrawData,
                   opaque_draws, transparent_draws>>
    /\ UNCHANGED <<frameVars, engineVars, dqVars, assetVars, allocVars, device, cullVars>>

DrawCullOpaque ==
    /\ drawStage = "geometry"
    /\ opaque_draws' = cull_draws(OpaqueDrawData, 1, <<>>)
    /\ drawStage' = "culled"
    /\ UNCHANGED <<surfaces, OpaqueDrawData, TransparentDrawData,
                   transparent_draws, cmd>>
    /\ UNCHANGED <<frameVars, engineVars, dqVars, assetVars, allocVars, device, cullVars>>

DrawSortOpaque ==
    /\ drawStage = "culled"
    /\ opaque_draws' \in
           std_sort(opaque_draws,
                    { <<iA, iB>> \in SeqToSet(opaque_draws) \X SeqToSet(opaque_draws) :
                        opaque_less(OpaqueDrawData, iA, iB) })
    /\ drawStage' = "sorted"
    /\ UNCHANGED <<surfaces, OpaqueDrawData, TransparentDrawData,
                   transparent_draws, cmd>>
    /\ UNCHANGED <<frameVars, engineVars, dqVars, assetVars, allocVars, device, cullVars>>

DrawCullTransparent ==
    /\ drawStage = "sorted"
    /\ transparent_draws' = cull_draws(TransparentDrawData, 1, <<>>)
    /\ drawStage' = "tculled"
    /\ UNCHANGED <<surfaces, OpaqueDrawData, TransparentDrawData,
                   opaque_draws, cmd>>
    /\ UNCHANGED <<frameVars, engineVars, dqVars, assetVars, allocVars, device, cullVars>>

DrawSortTransparent ==
    /\ drawStage = "tculled"
    /\ transparent_draws' \in
           std_sort(transparent_draws,
                    { <<iA, iB>> \in SeqToSet(transparent_draws)
                                      \X SeqToSet(transparent_draws) :
                        transparent_farther(TransparentDrawData, iA, iB) })
    /\ drawStage' = "tsorted"
    /\ UNCHANGED <<surfaces, OpaqueDrawData, TransparentDrawData,
                   opaque_draws, cmd>>
    /\ UNCHANGED <<frameVars, engineVars, dqVars, assetVars, allocVars, device, cullVars>>

\* the rest of draw_geometry, with the transparent surfaces drawn before
\* the opaque ones
DrawEmit_transparent_first ==
    /\ drawStage = "tsorted"
    /\ LET st0 == [cmd |-> cmd, lastMaterial |-> NoMaterial,
                   lastIndexBuffer |-> NoIndexBuffer]
           st1 == draw_all(st0, TransparentDrawData, transparent_draws, 1)
           st2 == draw_all(st1, OpaqueDrawData, opaque_draws, 1)
       IN cmd' = st2.cmd
    /\ OpaqueDrawData' = <<>>
    /\ TransparentDrawData' = <<>>
    /\ drawStage' = "drawn"
    /\ UNCHANGED <<surfaces, opaque_draws, transparent_draws>>
    /\ UNCHANGED <<frameVars, engineVars, dqVars, assetVars, allocVars, device, cullVars>>

\* the rest of draw_geometry, without the loop over transparent_draws
DrawEmit_skips_transparent ==
    /\ drawStage = "tsorted"
    /\ LET st0 == [cmd |-> cmd, lastMaterial |-> NoMaterial,
                   lastIndexBuffer |-> NoIndexBuffer]
           st1 == draw_all(st0, OpaqueDrawData, opaque_draws, 1)
       IN cmd' = st1.cmd
    /\ OpaqueDrawData' = <<>>
    /\ TransparentDrawData' = <<>>
    /\ drawStage' = "drawn"
    /\ UNCHANGED <<surfaces, opaque_draws, transparent_draws>>
    /\ UNCHANGED <<frameVars, engineVars, dqVars, assetVars, allocVars, device, cullVars>>

\* the rest of draw_geometry: the opaque surfaces are drawn, then the
\* transparent ones, and the two lists are cleared
DrawEmit ==
    /\ drawStage = "tsorted"
    /\ LET st0 == [cmd |-> cmd, lastMaterial |-> NoMaterial,
                   lastIndexBuffer |-> NoIndexBuffer]
           st1 == draw_all(st0, OpaqueDrawData, opaque_draws, 1)
           st2 == draw_all(st1, TransparentDrawData, transparent_draws, 1)
       IN cmd' = st2.cmd
    /\ OpaqueDrawData' = <<>>
    /\ TransparentDrawData' = <<>>
    /\ drawStage' = "drawn"
    /\ UNCHANGED <<surfaces, opaque_draws, transparent_draws>>
    /\ UNCHANGED <<frameVars, engineVars, dqVars, assetVars, allocVars, device, cullVars>>

\* draw_imgui: the UI overlay
DrawImgui ==
    /\ drawStage = "drawn"
    /\ cmd' = Append(cmd, Command("ImGui_ImplVulkan_RenderDrawData", "ui"))
    /\ drawStage' = "recorded"
    /\ UNCHANGED <<surfaces, OpaqueDrawData, TransparentDrawData,
                   opaque_draws, transparent_draws>>
    /\ UNCHANGED <<frameVars, engineVars, dqVars, assetVars, allocVars, device, cullVars>>

DrawNext ==
    \/ DrawGather
    \/ DrawBackground
    \/ DrawCullOpaque
    \/ DrawSortOpaque
    \/ DrawCullTransparent
    \/ DrawSortTransparent
    \/ DrawEmit
    \/ DrawImgui

SpecDraw == DrawSpecInit /\ [][DrawNext]_vars

(***************************************************************************)
(* SpecNodes: the node hierarchy of one LoadedGLTF.  load_gltf builds the  *)
(* Node objects of a file, delete_node and delete_all_nodes_except remove  *)
(* nodes by name, and gather_draw_data walks the hierarchy from the top    *)
(* nodes and appends the render objects of the mesh nodes to a DrawContext.*)
(* A Node object is [kind, parent, children, localTransform,               *)
(* worldTransform, name, mesh]; parent 0 is an expired weak_ptr and mesh 0 *)
(* the absence of a mesh.                                                  *)
(***************************************************************************)
MaxNodes == 3
MaxDeletes == 2

\* glm::translate(glm::mat4(1.f), tl)
Mat4Translate(tl) == [m |-> Mat4Identity.m, t |-> tl]
\* glm::scale(glm::mat4(1.f), sc)
Mat4Scale(sc) ==
    [m |-> <<<<sc[1], 0, 0>>, <<0, sc[2], 0>>, <<0, 0, sc[3]>>>>, t |-> Vec3Zero]
\* glm::toMat4(rot) of a rotation about the z axis by a number of quarter turns
Mat4QuarterTurnsZ(rot) ==
    [m |-> CASE rot % 4 = 0 -> Mat4Identity.m
             [] rot % 4 = 1 -> <<<<0, -1, 0>>, <<1, 0, 0>>, <<0, 0, 1>>>>
             [] rot % 4 = 2 -> <<<<-1, 0, 0>>, <<0, -1, 0>>, <<0, 0, 1>>>>
             [] OTHER -> <<<<0, 1, 0>>, <<-1, 0, 0>>, <<0, 0, 1>>>>,
     t |-> Vec3Zero]
\* the localTransform load_gltf computes from the TRS of a glTF node
trs_local_transform(trs) ==
    LET tm == Mat4Translate(trs.translation)
        rm == Mat4QuarterTurnsZ(trs.rotation)
        sm == Mat4Scale(trs.scale)
    IN Mat4Mul(Mat4Mul(tm, rm), sm)

\* file.meshes: the surfaces of the two meshes of the file
FileMeshes ==
    << [indexBuffer |-> 1,
        surfaces |->
          << [startIndex |-> 0, count |-> 3,
              material |-> [pipeline |-> material_pipeline("Opaque"),
                            descriptorSet |-> 1, alphaMode |-> "Opaque"]],
             [startIndex |-> 3, count |-> 6,
              material |-> [pipeline |-> material_pipeline("Transparent"),
                            descriptorSet |-> 4, alphaMode |-> "Transparent"]] >>],
       [indexBuffer |-> 2,
        surfaces |->
          << [startIndex |-> 0, count |-> 3,
              material |-> [pipeline |-> material_pipeline("Masked"),
                            descriptorSet |-> 3, alphaMode |-> "Masked"]] >>] >>
\* the glTF nodes a file is made of: a node without a mesh that translates,
\* a mesh node that turns and scales, a mesh node that leaves its parent's
\* frame as it is
GltfNodes ==
    { [name |-> "Empty", meshIndex |-> 0,
       transform |-> [translation |-> <<1, 0, 0>>, rotation |-> 0,
                      scale |-> <<1, 1, 1>>]],
      [name |-> "Suzanne", meshIndex |-> 1,
       transform |-> [translation |-> <<0, 0, 0>>, rotation |-> 1,
                      scale |-> <<2, 2, 2>>]],
      [name |-> "Cube", meshIndex |-> 2,
       transform |-> [translation |-> <<0, 0, 0>>, rotation |-> 0,
                      scale |-> <<1, 1, 1>>]] }
NodeNames == { g.name : g \in GltfNodes }
\* the root transforms a traversal is started with
TopMatrices == { Mat4Identity, Mat4QuarterTurnsZ(1) }

\* the parent index of every node of a file of n nodes that lists a parent
\* before its children: a forest
GltfForests(n) == { up \in [1..n -> 0..n] : \A i \in 1..n : up[i] < i }
\* node.children of glTF node i
GltfChildren(up, i) ==
    LET RECURSIVE from(_)
        from(c) == IF c > Len(up) THEN <<>>
                   ELSE (IF up[c] = i THEN <<c>> ELSE <<>>) \o from(c + 1)
    IN from(1)

\* Node::refreshTransform of node n, then of the children from index i on
RECURSIVE refreshTransform(_, _, _)
RECURSIVE refreshChildren(_, _, _, _)
refreshTransform(objs, n, parentMatrix) ==
    LET world == Mat4Mul(parentMatrix, objs[n].localTransform)
    IN refreshChildren([objs EXCEPT ![n].worldTransform = world],
                       objs[n].children, 1, world)
refreshChildren(objs, children, i, world) ==
    IF i > Len(children) THEN objs
    ELSE refreshChildren(refreshTransform(objs, children[i], world),
                         children, i + 1, world)

\* the objects load_gltf creates for the nodes gltf with parents up, before
\* the world transforms are computed
load_nodes(gltf, up) ==
    [i \in 1..Len(gltf) |->
        [kind |-> IF gltf[i].meshIndex # 0 THEN "MeshNode" ELSE "Node",
         mesh |-> gltf[i].meshIndex,
         name |-> gltf[i].name,
         localTransform |-> trs_local_transform(gltf[i].transform),
         worldTransform |-> Mat4Identity,
         children |-> GltfChildren(up, i),
         parent |-> up[i]]]
\* the last loop of load_gltf over the nodes from index i on: a node without
\* a parent becomes a top node and refreshes its subtree
RECURSIVE find_top_nodes(_, _)
find_top_nodes(st, i) ==
    IF i > Len(st.nodes) THEN st
    ELSE LET n == st.nodes[i]
         IN find_top_nodes(
                IF st.nodeObj[n].parent = 0
                THEN [st EXCEPT !.topNodes = Append(@, n),
                                !.nodeObj = refreshTransform(@, n, Mat4Identity)]
                ELSE st,
                i + 1)
load_gltf(gltf, up) ==
    find_top_nodes([nodes |-> [i \in 1..Len(gltf) |-> i],
                    topNodes |-> <<>>,
                    nodeObj |-> load_nodes(gltf, up)], 1)

\* the sequence without the entries equal to n (std::remove_if and erase)
RemoveNode(seq, n) == SelectSeq(seq, LAMBDA x : x # n)
\* the index of the first node called name in nodes, 0 if there is none
FindNode(st, name) ==
    LET hits == { i \in 1..Len(st.nodes) : st.nodeObj[st.nodes[i]].name = name }
    IN IF hits = {} THEN 0 ELSE CHOOSE i \in hits : \A j \in hits : i <= j
\* the sequence without its entry at index i
EraseAt(seq, i) == SubSeq(seq, 1, i - 1) \o SubSeq(seq, i + 1, Len(seq))
\* the parent field of the nodes in children set to p
Reparent(objs, children, p) ==
    [n \in DOMAIN objs |->
        IF \E i \in 1..Len(children) : children[i] = n
        THEN [objs[n] EXCEPT !.parent = p] ELSE objs[n]]

\* LoadedGLTF::delete_node: the first node called name leaves nodes and
\* topNodes; its children go to its parent, or become top nodes
delete_node(st, name) ==
    LET it == FindNode(st, name)
    IN IF it = 0 THEN st
       ELSE LET node_ptr == st.nodes[it]
                node == st.nodeObj[node_ptr]
                parent_ptr == node.parent
                moved == Reparent(st.nodeObj, node.children, parent_ptr)
                objs == IF parent_ptr # 0
                        THEN [moved EXCEPT ![parent_ptr].children =
                                 RemoveNode(@, node_ptr) \o node.children]
                        ELSE moved
                tops == IF parent_ptr # 0 THEN st.topNodes
                        ELSE st.topNodes \o node.children
            IN [nodes |-> EraseAt(st.nodes, it),
                topNodes |-> RemoveNode(tops, node_ptr),
                nodeObj |-> objs]

\* the names of the nodes of nodes, from index i on, that are not name
RECURSIVE names_to_delete(_, _, _)
names_to_delete(st, name, i) ==
    IF i > Len(st.nodes) THEN <<>>
    ELSE (IF st.nodeObj[st.nodes[i]].name # name
          THEN <<st.nodeObj[st.nodes[i]].name>> ELSE <<>>)
         \o names_to_delete(st, name, i + 1)
\* delete_node for the names of to_delete from index i on
RECURSIVE delete_nodes(_, _, _)
delete_nodes(st, to_delete, i) ==
    IF i > Len(to_delete) THEN st
    ELSE delete_nodes(delete_node(st, to_delete[i]), to_delete, i + 1)
\* LoadedGLTF::delete_all_nodes_except
delete_all_nodes_except(st, name) ==
    delete_nodes(st, names_to_delete(st, name, 1), 1)

\* the RenderObject MeshNode::gather_draw_data builds for surface s of mesh
RenderObjectOf(mesh, s, nodeMatrix) ==
    [indexCount |-> s.count, firstIndex |-> s.startIndex,
     indexBuffer |-> mesh.indexBuffer, material |-> s.material,
     transform |-> nodeMatrix]
\* the loop of MeshNode::gather_draw_data pushing every surface onto
\* OpaqueDrawData
RECURSIVE gather_surfaces_all_opaque(_, _, _, _)
gather_surfaces_all_opaque(mesh, i, nodeMatrix, ctx) ==
    IF i > Len(mesh.surfaces) THEN ctx
    ELSE LET def == RenderObjectOf(mesh, mesh.surfaces[i], nodeMatrix)
         IN gather_surfaces_all_opaque(mesh, i + 1, nodeMatrix,
                [ctx EXCEPT !.OpaqueDrawData = Append(@, def)])
\* the loop of MeshNode::gather_draw_data over the surfaces from index i on
RECURSIVE gather_surfaces(_, _, _, _)
gather_surfaces(mesh, i, nodeMatrix, ctx) ==
    IF i > Len(mesh.surfaces) THEN ctx
    ELSE LET def == RenderObjectOf(mesh, mesh.surfaces[i], nodeMatrix)
         IN gather_surfaces(mesh, i + 1, nodeMatrix,
                IF mesh.surfaces[i].material.alphaMode = "Transparent"
                THEN [ctx EXCEPT !.TransparentDrawData = Append(@, def)]
                ELSE [ctx EXCEPT !.OpaqueDrawData = Append(@, def)])

\* gather_draw_data of node n as the virtual call dispatches it, and of the
\* children from index i on (Node::gather_draw_data)
RECURSIVE node_gather_draw_data(_, _, _, _)
RECURSIVE Node_gather_draw_data(_, _, _, _, _)
\* MeshNode::gather_draw_data: the node's surfaces, then the children with
\* nodeMatrix as their top matrix
MeshNode_gather_draw_data(objs, n, top, ctx) ==
    LET nodeMatrix == Mat4Mul(top, objs[n].worldTransform)
        own == gather_surfaces(FileMeshes[objs[n].mesh], 1, nodeMatrix, ctx)
    IN Node_gather_draw_data(objs, objs[n].children, 1, nodeMatrix, own)
node_gather_draw_data(objs, n, top, ctx) ==
    IF objs[n].kind = "MeshNode"
    THEN MeshNode_gather_draw_data(objs, n, top, ctx)
    ELSE Node_gather_draw_data(objs, objs[n].children, 1, top, ctx)
Node_gather_draw_data(objs, children, i, top, ctx) ==
    IF i > Len(children) THEN ctx
    ELSE Node_gather_draw_data(objs, children, i + 1, top,
             node_gather_draw_data(objs, children[i], top, ctx))
\* LoadedGLTF::gather_draw_data: every top node in turn
LoadedGLTF_gather_draw_data(st, top, ctx) ==
    Node_gather_draw_data(st.nodeObj, st.topNodes, 1, top, ctx)

\* the LoadedGLTF held in the variables
Scene == [nodes |-> nodes, topNodes |-> topNodes, nodeObj |-> nodeObj]

NodeSpecInit ==
    /\ ImmIdle
    /\ FrameIdle
    /\ EngineIdle
    /\ DQIdle
    /\ AllocIdle
    /\ GeomIdle
    /\ device = NoDevice
    /\ \E n \in 1..MaxNodes :
         \E gltf \in [1..n -> GltfNodes], up \in GltfForests(n) :
           LET st == load_gltf(gltf, up)
           IN /\ nodes = st.nodes
              /\ topNodes = st.topNodes
              /\ nodeObj = st.nodeObj
    /\ drawContext = [OpaqueDrawData |-> <<>>, TransparentDrawData |-> <<>>]
    /\ topMatrix = Mat4Identity
    /\ nodeStage = "loaded"
    /\ nodeDeletes = 0

\* a call of delete_node on the loaded file
DeleteNode ==
    /\ nodeStage = "loaded"
    /\ nodeDeletes < MaxDeletes
    /\ \E name \in NodeNames :
         LET st == delete_node(Scene, name)
         IN /\ nodes' = st.nodes
            /\ topNodes' = st.topNodes
            /\ nodeObj' = st.nodeObj
    /\ nodeDeletes' = nodeDeletes + 1
    /\ UNCHANGED <<drawContext, topMatrix, nodeStage>>
    /\ UNCHANGED <<frameVars, engineVars, dqVars, allocVars, device, geomVars,
                   immVars>>

\* a call of delete_all_nodes_except on the loaded file
DeleteAllNodesExcept ==
    /\ nodeStage = "loaded"
    /\ nodeDeletes < MaxDeletes
    /\ \E name \in NodeNames :
         LET st == delete_all_nodes_except(Scene, name)
         IN /\ nodes' = st.nodes
            /\ topNodes' = st.topNodes
            /\ nodeObj' = st.nodeObj
    /\ nodeDeletes' = nodeDeletes + 1
    /\ UNCHANGED <<drawContext, topMatrix, nodeStage>>
    /\ UNCHANGED <<frameVars, engineVars, dqVars, allocVars, device, geomVars,
                   immVars>>

\* a traversal of the file into an empty DrawContext
GatherDrawData ==
    /\ nodeStage = "loaded"
    /\ \E top \in TopMatrices :
         /\ topMatrix' = top
         /\ drawContext' = LoadedGLTF_gather_draw_data(Scene, top, drawContext)
    /\ nodeStage' = "gathered"
    /\ UNCHANGED <<nodes, topNodes, nodeObj, nodeDeletes>>
    /\ UNCHANGED <<frameVars, engineVars, dqVars, allocVars, device, geomVars,
                   immVars>>

NodeNext ==
    \/ DeleteNode
    \/ DeleteAllNodesExcept
    \/ GatherDrawData

SpecNodes == NodeSpecInit /\ [][NodeNext]_vars

(***************************************************************************)
(* immediate_submit and its two callers, upload_mesh and create_image:     *)
(* the CPU records one-shot copy commands that read a staging buffer,      *)
(* submits them with _immFence and waits; the GPU executes the commands    *)
(* of the submission one by one and then signals the fence.                *)
(***************************************************************************)
\* uploads made by one run
MaxUploads == 3

\* the callers of immediate_submit: upload_mesh, create_image with and
\* without mipmaps
ImmCallers ==
    { [fn |-> "upload_mesh", mipmapped |-> FALSE],
      [fn |-> "create_image", mipmapped |-> FALSE],
      [fn |-> "create_image", mipmapped |-> TRUE] }

\* a command of the one-shot command buffer; src is the staging buffer it
\* reads, 0 if it reads none
ImmCommand(op, src) == [op |-> op, src |-> src]

\* the commands the lambda of upload_mesh records
upload_mesh_commands(staging) ==
    << ImmCommand("vkCmdCopyBuffer vertexBuffer", staging),
       ImmCommand("vkCmdCopyBuffer indexBuffer", staging) >>

\* the commands the lambda of create_image records
create_image_commands(uploadBuffer, mipmapped) ==
    << ImmCommand("transition_image TRANSFER_DST_OPTIMAL", 0),
       ImmCommand("vkCmdCopyBufferToImage", uploadBuffer),
       IF mipmapped
       THEN ImmCommand("generate_mipmaps", 0)
       ELSE ImmCommand("transition_image SHADER_READ_ONLY_OPTIMAL", 0) >>

\* function(cmd) of immediate_submit for a caller
ImmFunction(caller, staging) ==
    IF caller.fn = "upload_mesh"
    THEN upload_mesh_commands(staging)
    ELSE create_image_commands(staging, caller.mipmapped)

\* results of the Vulkan calls VK_CHECK wraps in immediate_submit
ImmResults == {"VK_SUCCESS", "VK_ERROR_DEVICE_LOST"}

\* after init_commands and init_sync_structures: _immFence created signaled,
\* nothing recorded, nothing submitted
ImmSpecInit ==
    /\ FrameIdle
    /\ EngineIdle
    /\ DQIdle
    /\ AllocIdle
    /\ GeomIdle
    /\ NodeIdle
    /\ device = NoDevice
    /\ immPc = "idle"
    /\ immCaller = NoCaller
    /\ immFence = TRUE
    /\ immCommandBuffer = <<>>
    /\ immQueue = <<>>
    /\ immPending = FALSE
    /\ stagingBuffers = {}
    /\ immStaging = 0
    /\ uploaded = <<>>

ImmRest == <<frameVars, engineVars, dqVars, allocVars, device, geomVars, nodeVars>>

\* upload_mesh / create_image up to the call of immediate_submit: the
\* staging buffer is created and filled
StartUpload ==
    /\ immPc = "idle"
    /\ Len(uploaded) < MaxUploads
    /\ \E caller \in ImmCallers : immCaller' = caller
    /\ immStaging' = Len(uploaded) + 1
    /\ stagingBuffers' = stagingBuffers \cup {Len(uploaded) + 1}
    /\ immPc' = "reset"
    /\ UNCHANGED <<immFence, immCommandBuffer, immQueue, immPending, uploaded>>
    /\ UNCHANGED ImmRest

\* immediate_submit: vkResetFences and vkResetCommandBuffer
ImmReset ==
    /\ immPc = "reset"
    /\ \E e \in ImmResults :
         IF e = "VK_SUCCESS"
         THEN /\ immFence' = FALSE
              /\ immCommandBuffer' = <<>>
              /\ immPc' = "record"
         ELSE /\ immPc' = "aborted"
              /\ UNCHANGED <<immFence, immCommandBuffer>>
    /\ UNCHANGED <<immCaller, immQueue, immPending, stagingBuffers, immStaging,
                   uploaded>>
    /\ UNCHANGED ImmRest

\* immediate_submit: vkBeginCommandBuffer, function(cmd), vkEndCommandBuffer
ImmRecord ==
    /\ immPc = "record"
    /\ \E e \in ImmResults :
         IF e = "VK_SUCCESS"
         THEN /\ immCommandBuffer' = ImmFunction(immCaller, immStaging)
              /\ immPc' = "submit"
         ELSE /\ immPc' = "aborted"
              /\ UNCHANGED immCommandBuffer
    /\ UNCHANGED <<immCaller, immFence, immQueue, immPending, stagingBuffers,
                   immStaging, uploaded>>
    /\ UNCHANGED ImmRest

\* immediate_submit: vkQueueSubmit2 with _immFence
ImmSubmit ==
    /\ immPc = "submit"
    /\ \E e \in ImmResults :
         IF e = "VK_SUCCESS"
         THEN /\ immQueue' = immQueue \o immCommandBuffer
              /\ immPending' = TRUE
              /\ immPc' = "wait"
         ELSE /\ immPc' = "aborted"
              /\ UNCHANGED <<immQueue, immPending>>
    /\ UNCHANGED <<immCaller, immFence, immCommandBuffer, stagingBuffers,
                   immStaging, uploaded>>
    /\ UNCHANGED ImmRest

\* the GPU executes the next command of the submission
ImmGpuExecute ==
    /\ immQueue # <<>>
    /\ immQueue' = Tail(immQueue)
    /\ UNCHANGED <<immPc, immCaller, immFence, immCommandBuffer, immPending,
                   stagingBuffers, immStaging, uploaded>>
    /\ UNCHANGED ImmRest

\* the GPU has finished the submission and signals _immFence
ImmGpuSignal ==
    /\ immPending
    /\ immQueue = <<>>
    /\ immFence' = TRUE
    /\ immPending' = FALSE
    /\ UNCHANGED <<immPc, immCaller, immCommandBuffer, immQueue,
                   stagingBuffers, immStaging, uploaded>>
    /\ UNCHANGED ImmRest

\* immediate_submit that returns without waiting for _immFence
ImmWait_no_wait ==
    /\ immPc = "wait"
    /\ immPc' = "destroy"
    /\ UNCHANGED <<immCaller, immFence, immCommandBuffer, immQueue, immPending,
                   stagingBuffers, immStaging, uploaded>>
    /\ UNCHANGED ImmRest

\* immediate_submit: VK_CHECK(vkWaitForFences(_immFence, 1 s)).  The wait
\* returns VK_SUCCESS once the fence is signaled; VK_TIMEOUT, when the
\* second passes first, and any error make VK_CHECK abort.
ImmWait ==
    /\ immPc = "wait"
    /\ \E e \in ImmResults \cup {"VK_TIMEOUT"} :
         /\ e = "VK_SUCCESS" => immFence
         /\ e = "VK_TIMEOUT" => ~immFence
         /\ immPc' = IF e = "VK_SUCCESS" THEN "destroy" ELSE "aborted"
    /\ UNCHANGED <<immCaller, immFence, immCommandBuffer, immQueue, immPending,
                   stagingBuffers, immStaging, uploaded>>
    /\ UNCHANGED ImmRest

\* upload_mesh / create_image after immediate_submit has returned:
\* destroy_buffer of the staging buffer, and the new resource is returned
FinishUpload ==
    /\ immPc = "destroy"
    /\ stagingBuffers' = stagingBuffers \ {immStaging}
    /\ uploaded' = Append(uploaded, immCaller)
    /\ immCaller' = NoCaller
    /\ immPc' = "idle"
    /\ UNCHANGED <<immFence, immCommandBuffer, immQueue, immPending, immStaging>>
    /\ UNCHANGED ImmRest

ImmNext ==
    \/ StartUpload
    \/ ImmReset
    \/ ImmRecord
    \/ ImmSubmit
    \/ ImmGpuExecute
    \/ ImmGpuSignal
    \/ ImmWait
    \/ FinishUpload

SpecImm == ImmSpecInit /\ [][ImmNext]_vars


(***************************************************************************)
(* Spec: the render loop.  The CPU thread runs run(): each iteration       *)
(* recreates the swapchain if a resize was requested and calls draw();     *)
(* draw() is modelled step by step because the GPU completes submissions   *)
(* concurrently.  pc is "loop" between draw() calls and names the next     *)
(* step inside draw(); "aborted" after abort(), "done" after cleanup().    *)
(* A submission on the queue is [slot, buf, set]: the frame slot whose     *)
(* fence it signals, the scene-data buffer and the descriptor set its      *)
(* commands read.                                                          *)
(***************************************************************************)
AcquireResults == {"VK_SUCCESS", "VK_SUBOPTIMAL_KHR", "VK_ERROR_OUT_OF_DATE_KHR",
                   "VK_ERROR_DEVICE_LOST"}
PresentResults == {"VK_SUCCESS", "VK_SUBOPTIMAL_KHR", "VK_ERROR_OUT_OF_DATE_KHR",
                   "VK_ERROR_DEVICE_LOST"}
SubmitResults == {"VK_SUCCESS", "VK_ERROR_DEVICE_LOST"}

\* get_current_frame(): the index of _frames[_frameNumber % FRAME_OVERLAP]
get_current_frame == frameNumber % FRAME_OVERLAP

\* init_descriptors: the per-frame allocators, initialised slot by slot
RECURSIVE InitFrameAllocators(_, _, _)
InitFrameAllocators(i, allocs, dev) ==
    IF i = FRAME_OVERLAP THEN [allocs |-> allocs, dev |-> dev]
    ELSE LET r == init(NewAllocator, dev, FrameInitialSets, FrameRatio)
         IN InitFrameAllocators(i + 1, [allocs EXCEPT ![i] = r.a], r.dev)

\* a Vulkan or VMA object: whose it is, its name in the source, and a number
\* that tells the objects of one name apart
Handle(owner, name, n) == [owner |-> owner, name |-> name, n |-> n]
\* a call that releases an object
Release(op, target) == [op |-> op, target |-> target]
\* destroy_buffer and destroy_image
destroy_buffer(buffer) == << Release("vmaDestroyBuffer", buffer) >>
destroy_image(image) ==
    << Release("vkDestroyImageView", image), Release("vmaDestroyImage", image) >>
\* the scene-data buffer draw_geometry creates for frame number buf
SceneDataBuffer(buf) == Handle("frame", "gpuSceneDataBuffer", buf)
errorCheckerboardImage == Handle("engine", "_errorCheckerboardImage", 0)

\* _mainDeletionQueue after init(): the deletors pushed by init_vulkan,
\* init_swapchain, init_commands, init_sync_structures, init_descriptors,
\* init_background_pipelines, init_imgui and init_default_data, in that
\* order; a deletor is the sequence of the calls it makes
MainDeletors ==
    << << Release("vmaDestroyAllocator", Handle("engine", "_allocator", 0)) >>,
       << Release("vkDestroyImageView", Handle("engine", "_drawImage", 0)),
          Release("vmaDestroyImage", Handle("engine", "_drawImage", 0)),
          Release("vkDestroyImageView", Handle("engine", "_depthImage", 0)),
          Release("vmaDestroyImage", Handle("engine", "_depthImage", 0)) >>,
       << Release("vkDestroyCommandPool", Handle("engine", "_immCommandPool", 0)) >>,
       << Release("vkDestroyFence", Handle("engine", "_immFence", 0)) >>,
       << Release("destroy_pools", Handle("frame", "frameDescriptorAllocator", 0)) >>,
       << Release("destroy_pools", Handle("frame", "frameDescriptorAllocator", 1)) >>,
       << Release("destroy_pools", Handle("engine", "_globalDescriptorAllocator", 0)),
          Release("vkDestroyDescriptorSetLayout",
                  Handle("engine", "_backgroundDescriptorSetLayout", 0)),
          Release("vkDestroyDescriptorSetLayout",
                  Handle("engine", "_gpuSceneDataDescriptorSetLayout", 0)),
          Release("vkDestroyDescriptorSetLayout",
                  Handle("engine", "_singleImageDescriptorSetLayout", 0)) >>,
       << Release("vkDestroyPipelineLayout",
                  Handle("engine", "_computePipelineLayout", 0)),
          Release("vkDestroyPipeline", Handle("engine", "sky.pipeline", 0)),
          Release("vkDestroyPipeline", Handle("engine", "gradient.pipeline", 0)) >>,
       << Release("ImGui_ImplVulkan_Shutdown", Handle("engine", "imgui", 0)),
          Release("vkDestroyDescriptorPool",
                  Handle("engine", "imguiDescriptorPool", 0)) >>,
       << Release("vkDestroySampler", Handle("engine", "_defaultSamplerNearest", 0)),
          Release("vkDestroySampler", Handle("engine", "_defaultSamplerLinear", 0)) >>
          \o destroy_image(Handle("engine", "_whiteImage", 0))
          \o destroy_image(Handle("engine", "_greyImage", 0))
          \o destroy_image(Handle("engine", "_blackImage", 0))
          \o destroy_image(errorCheckerboardImage) >>

\* _loadedScenes after init_default_data: a scene with a mesh, a texture of
\* its own and a texture that failed to load (the error checkerboard stands
\* in for it), and a scene with a mesh and no texture
LoadedScenes ==
    << [materialDataBuffer |-> Handle("scene", "materialDataBuffer", 1),
        meshes |-> << [indexBuffer |-> Handle("scene", "indexBuffer", 1),
                       vertexBuffer |-> Handle("scene", "vertexBuffer", 1)] >>,
        images |-> << Handle("scene", "images", 1), errorCheckerboardImage >>,
        samplers |-> << Handle("scene", "samplers", 1) >>,
        descriptorPool |-> Handle("scene", "descriptorPool", 1)],
       [materialDataBuffer |-> Handle("scene", "materialDataBuffer", 2),
        meshes |-> << [indexBuffer |-> Handle("scene", "indexBuffer", 2),
                       vertexBuffer |-> Handle("scene", "vertexBuffer", 2)] >>,
        images |-> << >>,
        samplers |-> << >>,
        descriptorPool |-> Handle("scene", "descriptorPool", 2)] >>

\* the sequences of a sequence of sequences joined, from index i on
RECURSIVE Flatten(_, _)
Flatten(seqs, i) ==
    IF i > Len(seqs) THEN <<>> ELSE seqs[i] \o Flatten(seqs, i + 1)

\* LoadedGLTF::clearAll: the calls it makes for one scene
clearAll(scene) ==
    << Release("destroy_pools", scene.descriptorPool) >>
    \o destroy_buffer(scene.materialDataBuffer)
    \o Flatten([i \in 1 .. Len(scene.meshes) |->
                   destroy_buffer(scene.meshes[i].indexBuffer)
                   \o destroy_buffer(scene.meshes[i].vertexBuffer)], 1)
    \o Flatten([i \in 1 .. Len(scene.images) |->
                   IF scene.images[i] = errorCheckerboardImage THEN <<>>
                   ELSE destroy_image(scene.images[i])], 1)
    \o [i \in 1 .. Len(scene.samplers) |->
           Release("vkDestroySampler", scene.samplers[i])]

\* the part of cleanup() for a frame slot without the flush of its queue
cleanup_frame_no_flush(i, deletors) ==
    << Release("vkDestroyCommandPool", Handle("frame", "commandPool", i)),
       Release("vkDestroyFence", Handle("frame", "renderFence", i)),
       Release("vkDestroySemaphore", Handle("frame", "renderSemaphore", i)),
       Release("vkDestroySemaphore", Handle("frame", "swapchainSemaphore", i)) >>

\* the part of cleanup() that frees the resources of frame slot i, whose
\* deletion queue holds deletors
cleanup_frame(i, deletors) ==
    << Release("vkDestroyCommandPool", Handle("frame", "commandPool", i)),
       Release("vkDestroyFence", Handle("frame", "renderFence", i)),
       Release("vkDestroySemaphore", Handle("frame", "renderSemaphore", i)),
       Release("vkDestroySemaphore", Handle("frame", "swapchainSemaphore", i)),
       Release("flush", Handle("frame", "deletionQueue", i)) >>
    \o [k \in 1 .. Len(flush(deletors).called) |->
           Release("vmaDestroyBuffer", SceneDataBuffer(flush(deletors).called[k]))]

\* cleanup() that flushes the main deletion queue before the frames' queues
cleanup_main_queue_first(scenes, deletors, main) ==
    << Release("vkDeviceWaitIdle", Handle("engine", "_device", 0)) >>
    \o Flatten([i \in 1 .. Len(scenes) |-> clearAll(scenes[i])], 1)
    \o << Release("flush", Handle("engine", "_mainDeletionQueue", 0)) >>
    \o Flatten(flush(main).called, 1)
    \o Flatten([i \in 1 .. FRAME_OVERLAP |-> cleanup_frame(i - 1, deletors[i - 1])], 1)
    \o << Release("destroy_pipelines", Handle("engine", "_metalRoughMaterial", 0)),
          Release("destroy_swapchain", Handle("engine", "_swapchain", 0)),
          Release("vkDestroySurfaceKHR", Handle("engine", "_surface", 0)),
          Release("vkDestroyDevice", Handle("engine", "_device", 0)),
          Release("vkDestroyInstance", Handle("engine", "_instance", 0)),
          Release("SDL_DestroyWindow", Handle("engine", "_window", 0)) >>

\* cleanup(): the calls made, in order, for the scenes in the order
\* _loadedScenes.clear() destroys them, the deletion queues deletors of the
\* frame slots and the main deletion queue main
cleanup(scenes, deletors, main) ==
    << Release("vkDeviceWaitIdle", Handle("engine", "_device", 0)) >>
    \o Flatten([i \in 1 .. Len(scenes) |-> clearAll(scenes[i])], 1)
    \o Flatten([i \in 1 .. FRAME_OVERLAP |-> cleanup_frame(i - 1, deletors[i - 1])], 1)
    \o << Release("destroy_pipelines", Handle("engine", "_metalRoughMaterial", 0)),
          Release("flush", Handle("engine", "_mainDeletionQueue", 0)) >>
    \o Flatten(flush(main).called, 1)
    \o << Release("destroy_swapchain", Handle("engine", "_swapchain", 0)),
          Release("vkDestroySurfaceKHR", Handle("engine", "_surface", 0)),
          Release("vkDestroyDevice", Handle("engine", "_device", 0)),
          Release("vkDestroyInstance", Handle("engine", "_instance", 0)),
          Release("SDL_DestroyWindow", Handle("engine", "_window", 0)) >>

\* the scene-data buffers the calls of log destroy, once for each call
DestroyedBy(log, buf) ==
    Cardinality({ k \in 1 .. Len(log) :
                    log[k] = Release("vmaDestroyBuffer", SceneDataBuffer(buf)) })

\* the surfaces of the scene the render loop draws: an opaque mesh and a
\* transparent one, both in front of the camera
SceneSurfaces ==
    << [material |-> [pipeline |-> material_pipeline("Opaque"),
                      descriptorSet |-> 1, alphaMode |-> "Opaque"],
        indexBuffer |-> 1,
        bounds |-> [origin |-> Vec3Zero, extents |-> <<1, 1, 1>>],
        transform |-> Mat4Identity],
       [material |-> [pipeline |-> material_pipeline("Transparent"),
                      descriptorSet |-> 4, alphaMode |-> "Transparent"],
        indexBuffer |-> 1,
        bounds |-> [origin |-> Vec3Zero, extents |-> <<1, 1, 1>>],
        transform |-> Mat4Identity] >>

\* the engine after init(): fences created signaled, semaphores unsignaled,
\* empty deletion queues and draw lists, frame number 0, nothing submitted
Init ==
    /\ pc = "loop"
    /\ frameNumber = 0
    /\ resizeRequested = FALSE
    /\ curSlot = 0
    /\ renderFence = [s \in Slots |-> TRUE]
    /\ frameDeletors = [s \in Slots |-> <<>>]
    /\ LET r == InitFrameAllocators(0, [s \in Slots |-> NewAllocator], NoDevice)
       IN /\ frameAlloc = r.allocs
          /\ device = r.dev
    /\ gpuQueue = <<>>
    /\ liveBuffers = {}
    /\ curBuf = 0
    /\ curSet = [handle |-> 0, allocated |-> FALSE]
    /\ callLog = <<>>
    /\ lastSlot = -1
    /\ dropped = 0
    /\ abortCause = ""
    /\ frameFaults \in 0 .. MaxFrameFaults
    /\ waitResult = "none"
    /\ acquireResult = "none"
    /\ presentResult = "none"
    /\ swapchainSemaphore = [s \in Slots |-> [pending |-> 0, signaled |-> 0]]
    /\ renderSemaphore = [s \in Slots |-> 0]
    /\ presentQueue = <<>>
    /\ lastPresented = [frame |-> 0, after |-> 0]
    /\ fenceBy = [s \in Slots |-> 0]
    /\ stop_rendering = FALSE
    /\ destroyCount = <<>>
    /\ mainDeletionQueue = MainDeletors
    /\ loadedScenes = LoadedScenes
    /\ cleanupLog = <<>>
    /\ DQIdle
    /\ AssetIdle
    /\ AllocIdle
    /\ CullIdle
    /\ surfaces = SceneSurfaces
    /\ OpaqueDrawData = <<>>
    /\ TransparentDrawData = <<>>
    /\ opaque_draws = <<>>
    /\ transparent_draws = <<>>
    /\ cmd = <<>>
    /\ drawStage = "off"

Abort(cause) ==
    /\ pc' = "aborted"
    /\ abortCause' = cause

\* run() that goes on to draw() without looking at the resize flag
RunLoop_no_resize ==
    /\ pc = "loop"
    /\ frameNumber < MaxFrames
    /\ stop_rendering' = FALSE
    /\ UNCHANGED resizeRequested
    /\ LET ctx == gather_draw_data(surfaces, 1,
                      [OpaqueDrawData |-> OpaqueDrawData,
                       TransparentDrawData |-> TransparentDrawData])
       IN /\ OpaqueDrawData' = ctx.OpaqueDrawData
          /\ TransparentDrawData' = ctx.TransparentDrawData
    /\ curSlot' = get_current_frame
    /\ callLog' = <<>>
    /\ waitResult' = "none"
    /\ acquireResult' = "none"
    /\ presentResult' = "none"
    /\ pc' = "wait"
    /\ UNCHANGED <<frameNumber, renderFence, frameDeletors, frameAlloc, gpuQueue,
                   liveBuffers, curBuf, curSet, lastSlot, dropped, abortCause,
                   frameFaults, device, syncVars>>
    /\ UNCHANGED <<dqVars, assetVars, allocVars, cullVars, surfaces, opaque_draws,
                   transparent_draws, cmd, drawStage>>
    /\ UNCHANGED <<destroyCount, mainDeletionQueue, loadedScenes, cleanupLog>>

\* run(): one iteration up to the fence wait of draw().  A requested resize
\* runs resize_swapchain(), whose vkDeviceWaitIdle returns once the queue
\* is empty, and clears the flag; draw() then calls update_render_scene(),
\* which gathers the scene's surfaces onto the draw lists, and binds `frame`.
RunLoop ==
    /\ pc = "loop"
    /\ frameNumber < MaxFrames
    /\ resizeRequested => gpuQueue = <<>>
    /\ stop_rendering' = FALSE
    /\ resizeRequested' = FALSE
    /\ LET ctx == gather_draw_data(surfaces, 1,
                      [OpaqueDrawData |-> OpaqueDrawData,
                       TransparentDrawData |-> TransparentDrawData])
       IN /\ OpaqueDrawData' = ctx.OpaqueDrawData
          /\ TransparentDrawData' = ctx.TransparentDrawData
    /\ curSlot' = get_current_frame
    /\ callLog' = <<>>
    /\ waitResult' = "none"
    /\ acquireResult' = "none"
    /\ presentResult' = "none"
    /\ pc' = "wait"
    /\ UNCHANGED <<frameNumber, renderFence, frameDeletors, frameAlloc, gpuQueue,
                   liveBuffers, curBuf, curSet, lastSlot, dropped, abortCause,
                   frameFaults, device, syncVars>>
    /\ UNCHANGED <<dqVars, assetVars, allocVars, cullVars, surfaces, opaque_draws,
                   transparent_draws, cmd, drawStage>>
    /\ UNCHANGED <<destroyCount, mainDeletionQueue, loadedScenes, cleanupLog>>

\* run(): an iteration that finds the window minimized sleeps and continues
\* without resizing or drawing
RunMinimized ==
    /\ pc = "loop"
    /\ stop_rendering' = TRUE
    /\ UNCHANGED <<destroyCount, mainDeletionQueue, loadedScenes, cleanupLog>>
    /\ UNCHANGED <<frameVars, device, dqVars, assetVars, allocVars, geomVars>>

\* draw() that goes on without looking at the fence
WaitFence_ignored ==
    /\ pc = "wait"
    /\ callLog' = Append(callLog, "wait_fence")
    /\ waitResult' = "VK_SUCCESS"
    /\ pc' = "reset_fence"
    /\ UNCHANGED <<frameNumber, resizeRequested, curSlot, renderFence,
                   frameDeletors, frameAlloc, gpuQueue, liveBuffers, curBuf,
                   curSet, lastSlot, dropped, abortCause, frameFaults, device,
                   acquireResult, presentResult, syncVars>>
    /\ UNCHANGED <<dqVars, assetVars, engineVars, allocVars, geomVars>>

\* vkWaitForFences returns VK_SUCCESS: the slot's fence is signaled
WaitFence ==
    /\ pc = "wait"
    /\ renderFence[curSlot]
    /\ callLog' = Append(callLog, "wait_fence")
    /\ waitResult' = "VK_SUCCESS"
    /\ pc' = "reset_fence"
    /\ UNCHANGED <<frameNumber, resizeRequested, curSlot, renderFence,
                   frameDeletors, frameAlloc, gpuQueue, liveBuffers, curBuf,
                   curSet, lastSlot, dropped, abortCause, frameFaults, device,
                   acquireResult, presentResult, syncVars>>
    /\ UNCHANGED <<dqVars, assetVars, engineVars, allocVars, geomVars>>

\* draw() that goes on with the frame after VK_TIMEOUT
WaitTimeout_goes_on ==
    /\ pc = "wait"
    /\ ~renderFence[curSlot]
    /\ waitResult' = "VK_TIMEOUT"
    /\ pc' = "reset_fence"
    /\ UNCHANGED <<frameNumber, resizeRequested, curSlot, renderFence,
                   frameDeletors, frameAlloc, gpuQueue, liveBuffers, curBuf,
                   curSet, callLog, lastSlot, dropped, abortCause, frameFaults,
                   device, acquireResult, presentResult, syncVars>>
    /\ UNCHANGED <<dqVars, assetVars, engineVars, allocVars, geomVars>>

\* vkWaitForFences returns VK_TIMEOUT: the fence stayed unsignaled for the
\* whole second, and VK_CHECK aborts
WaitTimeout ==
    /\ pc = "wait"
    /\ ~renderFence[curSlot]
    /\ waitResult' = "VK_TIMEOUT"
    /\ Abort("fence wait timeout")
    /\ UNCHANGED <<frameNumber, resizeRequested, curSlot, renderFence,
                   frameDeletors, frameAlloc, gpuQueue, liveBuffers, curBuf,
                   curSet, callLog, lastSlot, dropped, frameFaults, device,
                   acquireResult, presentResult, syncVars>>
    /\ UNCHANGED <<dqVars, assetVars, engineVars, allocVars, geomVars>>

\* vkResetFences
ResetFence ==
    /\ pc = "reset_fence"
    /\ renderFence' = [renderFence EXCEPT ![curSlot] = FALSE]
    /\ callLog' = Append(callLog, "reset_fence")
    /\ pc' = "flush"
    /\ UNCHANGED <<frameNumber, resizeRequested, curSlot, frameDeletors,
                   frameAlloc, gpuQueue, liveBuffers, curBuf, curSet, lastSlot,
                   dropped, abortCause, frameFaults, device, resultVars,
                   syncVars>>
    /\ UNCHANGED <<dqVars, assetVars, engineVars, allocVars, geomVars>>

\* frame.deletionQueue.flush(): every deletor called destroys its buffer
FlushFrame ==
    /\ pc = "flush"
    /\ LET r == flush(frameDeletors[curSlot])
       IN /\ frameDeletors' = [frameDeletors EXCEPT ![curSlot] = r.deletors]
          /\ liveBuffers' = liveBuffers \ SeqToSet(r.called)
          /\ destroyCount' =
                 [b \in DOMAIN destroyCount |->
                    destroyCount[b]
                      + Cardinality({ k \in 1 .. Len(r.called) : r.called[k] = b })]
    /\ callLog' = Append(callLog, "flush")
    /\ pc' = "reset_pools"
    /\ UNCHANGED <<frameNumber, resizeRequested, curSlot, renderFence, frameAlloc,
                   gpuQueue, curBuf, curSet, lastSlot, dropped, abortCause,
                   frameFaults, device, resultVars, syncVars>>
    /\ UNCHANGED <<dqVars, assetVars, allocVars, geomVars>>
    /\ UNCHANGED <<stop_rendering, mainDeletionQueue, loadedScenes, cleanupLog>>

\* draw() that resets the descriptor pools in place of the flush
ResetFramePools_first ==
    /\ pc = "flush"
    /\ LET r == reset_pools(frameAlloc[curSlot], device)
       IN /\ frameAlloc' = [frameAlloc EXCEPT ![curSlot] = r.a]
          /\ device' = r.dev
    /\ callLog' = Append(callLog, "reset_pools")
    /\ pc' = "reset_pools"
    /\ UNCHANGED <<frameNumber, resizeRequested, curSlot, renderFence,
                   frameDeletors, gpuQueue, liveBuffers, curBuf, curSet, lastSlot,
                   dropped, abortCause, frameFaults, resultVars, syncVars>>
    /\ UNCHANGED <<dqVars, assetVars, engineVars, allocVars, geomVars>>

\* frame.frameDescriptorAllocator.reset_pools(_device)
ResetFramePools ==
    /\ pc = "reset_pools"
    /\ LET r == reset_pools(frameAlloc[curSlot], device)
       IN /\ frameAlloc' = [frameAlloc EXCEPT ![curSlot] = r.a]
          /\ device' = r.dev
    /\ callLog' = Append(callLog, "reset_pools")
    /\ pc' = "acquire"
    /\ UNCHANGED <<frameNumber, resizeRequested, curSlot, renderFence,
                   frameDeletors, gpuQueue, liveBuffers, curBuf, curSet, lastSlot,
                   dropped, abortCause, frameFaults, resultVars, syncVars>>
    /\ UNCHANGED <<dqVars, assetVars, engineVars, allocVars, geomVars>>

\* an acquisition that succeeded or was suboptimal signals the slot's
\* swapchainSemaphore once the image is available
AcquireSignal(sem) ==
    [sem EXCEPT ![curSlot].pending = frameNumber + 1]

\* draw() that sets the flag on "out of date" and goes on with the frame
Acquire_no_return ==
    /\ pc = "acquire"
    /\ \E e \in AcquireResults :
         /\ acquireResult' = e
         /\ IF e = "VK_ERROR_OUT_OF_DATE_KHR"
            THEN /\ resizeRequested' = TRUE
                 /\ dropped' = dropped + 1
                 /\ callLog' = Append(callLog, "acquire_out_of_date")
                 /\ pc' = "record"
                 /\ UNCHANGED <<abortCause, swapchainSemaphore>>
            ELSE IF e = "VK_SUCCESS" \/ e = "VK_SUBOPTIMAL_KHR"
            THEN /\ callLog' = Append(callLog, "acquire")
                 /\ swapchainSemaphore' = AcquireSignal(swapchainSemaphore)
                 /\ pc' = "record"
                 /\ UNCHANGED <<resizeRequested, dropped, abortCause>>
            ELSE /\ Abort("vkAcquireNextImageKHR")
                 /\ UNCHANGED <<resizeRequested, dropped, callLog,
                                swapchainSemaphore>>
    /\ UNCHANGED <<frameNumber, curSlot, renderFence, frameDeletors, frameAlloc,
                   gpuQueue, liveBuffers, curBuf, curSet, lastSlot, frameFaults,
                   device, waitResult, presentResult, renderSemaphore,
                   presentQueue, lastPresented, fenceBy>>
    /\ UNCHANGED <<dqVars, assetVars, engineVars, allocVars, geomVars>>

\* draw() that sets _resizeRequested when the acquisition is suboptimal
Acquire_suboptimal_sets_flag ==
    /\ pc = "acquire"
    /\ \E e \in AcquireResults :
         /\ acquireResult' = e
         /\ IF e = "VK_ERROR_OUT_OF_DATE_KHR"
            THEN /\ resizeRequested' = TRUE
                 /\ dropped' = dropped + 1
                 /\ callLog' = Append(callLog, "acquire_out_of_date")
                 /\ pc' = "loop"
                 /\ UNCHANGED <<abortCause, swapchainSemaphore>>
            ELSE IF e = "VK_SUCCESS" \/ e = "VK_SUBOPTIMAL_KHR"
            THEN /\ callLog' = Append(callLog, "acquire")
                 /\ swapchainSemaphore' = AcquireSignal(swapchainSemaphore)
                 /\ resizeRequested' =
                        (resizeRequested \/ e = "VK_SUBOPTIMAL_KHR")
                 /\ pc' = "record"
                 /\ UNCHANGED <<dropped, abortCause>>
            ELSE /\ Abort("vkAcquireNextImageKHR")
                 /\ UNCHANGED <<resizeRequested, dropped, callLog,
                                swapchainSemaphore>>
    /\ UNCHANGED <<frameNumber, curSlot, renderFence, frameDeletors, frameAlloc,
                   gpuQueue, liveBuffers, curBuf, curSet, lastSlot, frameFaults,
                   device, waitResult, presentResult, renderSemaphore,
                   presentQueue, lastPresented, fenceBy>>
    /\ UNCHANGED <<dqVars, assetVars, engineVars, allocVars, geomVars>>

\* vkAcquireNextImageKHR and the branches on its result: "out of date" sets
\* _resizeRequested and returns from draw(); "suboptimal" and success go on;
\* any other result aborts through VK_CHECK
Acquire ==
    /\ pc = "acquire"
    /\ \E e \in AcquireResults :
         /\ acquireResult' = e
         /\ IF e = "VK_ERROR_OUT_OF_DATE_KHR"
            THEN /\ resizeRequested' = TRUE
                 /\ dropped' = dropped + 1
                 /\ callLog' = Append(callLog, "acquire_out_of_date")
                 /\ pc' = "loop"
                 /\ UNCHANGED <<abortCause, swapchainSemaphore>>
            ELSE IF e = "VK_SUCCESS" \/ e = "VK_SUBOPTIMAL_KHR"
            THEN /\ callLog' = Append(callLog, "acquire")
                 /\ swapchainSemaphore' = AcquireSignal(swapchainSemaphore)
                 /\ pc' = "record"
                 /\ UNCHANGED <<resizeRequested, dropped, abortCause>>
            ELSE /\ Abort("vkAcquireNextImageKHR")
                 /\ UNCHANGED <<resizeRequested, dropped, callLog,
                                swapchainSemaphore>>
    /\ UNCHANGED <<frameNumber, curSlot, renderFence, frameDeletors, frameAlloc,
                   gpuQueue, liveBuffers, curBuf, curSet, lastSlot, frameFaults,
                   device, waitResult, presentResult, renderSemaphore,
                   presentQueue, lastPresented, fenceBy>>
    /\ UNCHANGED <<dqVars, assetVars, engineVars, allocVars, geomVars>>

\* the presentation engine makes the acquired image available and signals
\* the semaphore that vkAcquireNextImageKHR was given
ImageAvailable ==
    /\ pc # "aborted"
    /\ \E s \in Slots :
         /\ swapchainSemaphore[s].pending # 0
         /\ swapchainSemaphore' =
                [swapchainSemaphore EXCEPT
                   ![s] = [pending |-> 0, signaled |-> @.pending]]
    /\ UNCHANGED <<pc, frameNumber, resizeRequested, curSlot, renderFence,
                   frameDeletors, frameAlloc, gpuQueue, liveBuffers, curBuf,
                   curSet, callLog, lastSlot, dropped, abortCause, frameFaults,
                   device, resultVars, renderSemaphore, presentQueue,
                   lastPresented, fenceBy>>
    /\ UNCHANGED <<dqVars, assetVars, engineVars, allocVars, geomVars>>

\* vkResetCommandBuffer, vkBeginCommandBuffer, draw_background, draw_geometry,
\* draw_imgui, vkEndCommandBuffer.  draw_geometry creates the scene-data
\* buffer (a fresh handle: one buffer per frame number), pushes its deletor
\* on the slot's deletion queue and allocates the scene-data descriptor set
\* from the slot's allocator, which may abort; having drawn the surfaces it
\* clears the two draw lists.
Record ==
    /\ pc = "record"
    /\ LET buf == frameNumber + 1
       IN /\ curBuf' = buf
          /\ liveBuffers' = liveBuffers \cup {buf}
          /\ destroyCount' = [b \in 1 .. buf |->
                                IF b \in DOMAIN destroyCount
                                THEN destroyCount[b] ELSE 0]
          /\ frameDeletors' = [frameDeletors EXCEPT
                                 ![curSlot] = push_function(@, buf)]
    /\ \E r \in AllocateOutcomes(frameAlloc[curSlot], device,
                                 SceneDataLayoutNeed, frameFaults) :
         /\ frameAlloc' = [frameAlloc EXCEPT ![curSlot] = r.a]
         /\ device' = r.dev
         /\ frameFaults' = frameFaults - FaultsIn(r.attempts)
         /\ curSet' = [handle |-> r.set,
                       allocated |-> r.attempts[Len(r.attempts)].result = VK_SUCCESS]
         /\ IF r.aborted
            THEN /\ Abort("vkAllocateDescriptorSets")
                 /\ UNCHANGED <<callLog, OpaqueDrawData, TransparentDrawData>>
            ELSE /\ callLog' = callLog \o <<"reset_cmd", "record">>
                 /\ OpaqueDrawData' = <<>>
                 /\ TransparentDrawData' = <<>>
                 /\ pc' = "submit"
                 /\ UNCHANGED abortCause
    /\ UNCHANGED <<frameNumber, resizeRequested, curSlot, renderFence, gpuQueue,
                   lastSlot, dropped, resultVars, syncVars>>
    /\ UNCHANGED <<dqVars, assetVars, allocVars, cullVars, surfaces, opaque_draws,
                   transparent_draws, cmd, drawStage>>
    /\ UNCHANGED <<stop_rendering, mainDeletionQueue, loadedScenes, cleanupLog>>

\* vkQueueSubmit2 without a wait semaphore
Submit_no_wait ==
    /\ pc = "submit"
    /\ \E e \in SubmitResults :
         IF e = "VK_SUCCESS"
         THEN /\ gpuQueue' = Append(gpuQueue,
                                    [slot |-> curSlot, buf |-> curBuf, set |-> curSet,
                                     waitSemaphore |-> -1,
                                     signalSemaphore |-> curSlot,
                                     started |-> FALSE, startedAfter |-> 0])
              /\ callLog' = Append(callLog, "submit")
              /\ pc' = "present"
              /\ UNCHANGED abortCause
         ELSE /\ Abort("vkQueueSubmit2")
              /\ UNCHANGED <<gpuQueue, callLog>>
    /\ UNCHANGED <<frameNumber, resizeRequested, curSlot, renderFence,
                   frameDeletors, frameAlloc, liveBuffers, curBuf, curSet,
                   lastSlot, dropped, frameFaults, device, resultVars, syncVars>>
    /\ UNCHANGED <<dqVars, assetVars, engineVars, allocVars, geomVars>>

\* vkQueueSubmit2 with frame.renderFence: the command buffer is on the
\* queue; it waits on frame.swapchainSemaphore and signals
\* frame.renderSemaphore (-1 stands for no semaphore)
Submit ==
    /\ pc = "submit"
    /\ \E e \in SubmitResults :
         IF e = "VK_SUCCESS"
         THEN /\ gpuQueue' = Append(gpuQueue,
                                    [slot |-> curSlot, buf |-> curBuf, set |-> curSet,
                                     waitSemaphore |-> curSlot,
                                     signalSemaphore |-> curSlot,
                                     started |-> FALSE, startedAfter |-> 0])
              /\ callLog' = Append(callLog, "submit")
              /\ pc' = "present"
              /\ UNCHANGED abortCause
         ELSE /\ Abort("vkQueueSubmit2")
              /\ UNCHANGED <<gpuQueue, callLog>>
    /\ UNCHANGED <<frameNumber, resizeRequested, curSlot, renderFence,
                   frameDeletors, frameAlloc, liveBuffers, curBuf, curSet,
                   lastSlot, dropped, frameFaults, device, resultVars, syncVars>>
    /\ UNCHANGED <<dqVars, assetVars, engineVars, allocVars, geomVars>>

\* the presentation request of vkQueuePresentKHR: it waits on
\* frame.renderSemaphore; on "out of date" the wait still takes place and
\* no image is shown
PresentRequest(e) ==
    [frame |-> curBuf, waitSemaphore |-> curSlot,
     shown |-> e # "VK_ERROR_OUT_OF_DATE_KHR"]

\* draw() that does not advance _frameNumber
Present_no_increment ==
    /\ pc = "present"
    /\ \E e \in PresentResults :
         /\ presentResult' = e
         /\ IF e = "VK_ERROR_DEVICE_LOST"
            THEN /\ Abort("vkQueuePresentKHR")
                 /\ UNCHANGED <<resizeRequested, frameNumber, lastSlot, dropped,
                                callLog, presentQueue>>
            ELSE /\ resizeRequested' = (resizeRequested \/ e # "VK_SUCCESS")
                 /\ presentQueue' = Append(presentQueue, PresentRequest(e))
                 /\ lastSlot' = curSlot
                 /\ dropped' = 0
                 /\ callLog' = Append(callLog, "present")
                 /\ pc' = "loop"
                 /\ UNCHANGED <<abortCause, frameNumber>>
    /\ UNCHANGED <<curSlot, renderFence, frameDeletors, frameAlloc, gpuQueue,
                   liveBuffers, curBuf, curSet, frameFaults, device, waitResult,
                   acquireResult, swapchainSemaphore, renderSemaphore,
                   lastPresented, fenceBy>>
    /\ UNCHANGED <<dqVars, assetVars, engineVars, allocVars, geomVars>>

\* draw() that sets _resizeRequested on "out of date" only
Present_suboptimal_ignored ==
    /\ pc = "present"
    /\ \E e \in PresentResults :
         /\ presentResult' = e
         /\ IF e = "VK_ERROR_DEVICE_LOST"
            THEN /\ Abort("vkQueuePresentKHR")
                 /\ UNCHANGED <<resizeRequested, frameNumber, lastSlot, dropped,
                                callLog, presentQueue>>
            ELSE /\ resizeRequested' =
                        (resizeRequested \/ e = "VK_ERROR_OUT_OF_DATE_KHR")
                 /\ presentQueue' = Append(presentQueue, PresentRequest(e))
                 /\ frameNumber' = frameNumber + 1
                 /\ lastSlot' = curSlot
                 /\ dropped' = 0
                 /\ callLog' = Append(callLog, "present")
                 /\ pc' = "loop"
                 /\ UNCHANGED abortCause
    /\ UNCHANGED <<curSlot, renderFence, frameDeletors, frameAlloc, gpuQueue,
                   liveBuffers, curBuf, curSet, frameFaults, device, waitResult,
                   acquireResult, swapchainSemaphore, renderSemaphore,
                   lastPresented, fenceBy>>
    /\ UNCHANGED <<dqVars, assetVars, engineVars, allocVars, geomVars>>

\* vkQueuePresentKHR without a wait semaphore
Present_no_wait ==
    /\ pc = "present"
    /\ \E e \in PresentResults :
         /\ presentResult' = e
         /\ IF e = "VK_ERROR_DEVICE_LOST"
            THEN /\ Abort("vkQueuePresentKHR")
                 /\ UNCHANGED <<resizeRequested, frameNumber, lastSlot, dropped,
                                callLog, presentQueue>>
            ELSE /\ resizeRequested' = (resizeRequested \/ e # "VK_SUCCESS")
                 /\ presentQueue' =
                        Append(presentQueue,
                               [PresentRequest(e) EXCEPT !.waitSemaphore = -1])
                 /\ frameNumber' = frameNumber + 1
                 /\ lastSlot' = curSlot
                 /\ dropped' = 0
                 /\ callLog' = Append(callLog, "present")
                 /\ pc' = "loop"
                 /\ UNCHANGED abortCause
    /\ UNCHANGED <<curSlot, renderFence, frameDeletors, frameAlloc, gpuQueue,
                   liveBuffers, curBuf, curSet, frameFaults, device, waitResult,
                   acquireResult, swapchainSemaphore, renderSemaphore,
                   lastPresented, fenceBy>>
    /\ UNCHANGED <<dqVars, assetVars, engineVars, allocVars, geomVars>>

\* vkQueuePresentKHR and the end of draw(): "out of date" and "suboptimal"
\* set _resizeRequested, any other failure aborts; then _frameNumber++
Present ==
    /\ pc = "present"
    /\ \E e \in PresentResults :
         /\ presentResult' = e
         /\ IF e = "VK_ERROR_DEVICE_LOST"
            THEN /\ Abort("vkQueuePresentKHR")
                 /\ UNCHANGED <<resizeRequested, frameNumber, lastSlot, dropped,
                                callLog, presentQueue>>
            ELSE /\ resizeRequested' = (resizeRequested \/ e # "VK_SUCCESS")
                 /\ presentQueue' = Append(presentQueue, PresentRequest(e))
                 /\ frameNumber' = frameNumber + 1
                 /\ lastSlot' = curSlot
                 /\ dropped' = 0
                 /\ callLog' = Append(callLog, "present")
                 /\ pc' = "loop"
                 /\ UNCHANGED abortCause
    /\ UNCHANGED <<curSlot, renderFence, frameDeletors, frameAlloc, gpuQueue,
                   liveBuffers, curBuf, curSet, frameFaults, device, waitResult,
                   acquireResult, swapchainSemaphore, renderSemaphore,
                   lastPresented, fenceBy>>
    /\ UNCHANGED <<dqVars, assetVars, engineVars, allocVars, geomVars>>

\* the GPU begins to execute the oldest submission of the queue once the
\* semaphore it waits on is signaled; the wait unsignals the semaphore
GpuStart ==
    /\ pc # "aborted"
    /\ gpuQueue # <<>>
    /\ ~gpuQueue[1].started
    /\ LET w == gpuQueue[1].waitSemaphore
       IN IF w = -1
          THEN /\ gpuQueue' = [gpuQueue EXCEPT ![1].started = TRUE]
               /\ UNCHANGED swapchainSemaphore
          ELSE /\ swapchainSemaphore[w].signaled # 0
               /\ gpuQueue' = [gpuQueue EXCEPT
                                 ![1].started = TRUE,
                                 ![1].startedAfter = swapchainSemaphore[w].signaled]
               /\ swapchainSemaphore' =
                      [swapchainSemaphore EXCEPT ![w].signaled = 0]
    /\ UNCHANGED <<pc, frameNumber, resizeRequested, curSlot, renderFence,
                   frameDeletors, frameAlloc, liveBuffers, curBuf, curSet,
                   callLog, lastSlot, dropped, abortCause, frameFaults, device,
                   resultVars, renderSemaphore, presentQueue, lastPresented,
                   fenceBy>>
    /\ UNCHANGED <<dqVars, assetVars, engineVars, allocVars, geomVars>>

\* a GPU that signals the fence of a submission it has not finished
GpuFinish_signals_early ==
    /\ pc # "aborted"
    /\ gpuQueue # <<>>
    /\ renderFence' = [renderFence EXCEPT ![gpuQueue[1].slot] = TRUE]
    /\ fenceBy' = [fenceBy EXCEPT ![gpuQueue[1].slot] = gpuQueue[1].buf]
    /\ UNCHANGED <<pc, frameNumber, resizeRequested, curSlot, frameDeletors,
                   frameAlloc, gpuQueue, liveBuffers, curBuf, curSet, callLog,
                   lastSlot, dropped, abortCause, frameFaults, device,
                   resultVars, swapchainSemaphore, renderSemaphore,
                   presentQueue, lastPresented>>
    /\ UNCHANGED <<dqVars, assetVars, engineVars, allocVars, geomVars>>

\* the GPU finishes the submission it is executing and signals the
\* semaphore and the fence that vkQueueSubmit2 was given with it
GpuFinish ==
    /\ pc # "aborted"
    /\ gpuQueue # <<>>
    /\ gpuQueue[1].started
    /\ renderFence' = [renderFence EXCEPT ![gpuQueue[1].slot] = TRUE]
    /\ fenceBy' = [fenceBy EXCEPT ![gpuQueue[1].slot] = gpuQueue[1].buf]
    /\ renderSemaphore' =
           [renderSemaphore EXCEPT
              ![gpuQueue[1].signalSemaphore] = gpuQueue[1].buf]
    /\ gpuQueue' = Tail(gpuQueue)
    /\ UNCHANGED <<pc, frameNumber, resizeRequested, curSlot, frameDeletors,
                   frameAlloc, liveBuffers, curBuf, curSet, callLog, lastSlot,
                   dropped, abortCause, frameFaults, device, resultVars,
                   swapchainSemaphore, presentQueue, lastPresented>>
    /\ UNCHANGED <<dqVars, assetVars, engineVars, allocVars, geomVars>>

\* the presentation engine executes the oldest presentation request once
\* the semaphore it waits on is signaled; the wait unsignals the semaphore
PresentExecute ==
    /\ pc # "aborted"
    /\ presentQueue # <<>>
    /\ LET req == presentQueue[1]
           w == req.waitSemaphore
       IN /\ w # -1 => renderSemaphore[w] # 0
          /\ lastPresented' =
                 IF req.shown
                 THEN [frame |-> req.frame,
                       after |-> IF w = -1 THEN 0 ELSE renderSemaphore[w]]
                 ELSE lastPresented
          /\ renderSemaphore' =
                 IF w = -1 THEN renderSemaphore
                 ELSE [renderSemaphore EXCEPT ![w] = 0]
    /\ presentQueue' = Tail(presentQueue)
    /\ UNCHANGED <<pc, frameNumber, resizeRequested, curSlot, renderFence,
                   frameDeletors, frameAlloc, gpuQueue, liveBuffers, curBuf,
                   curSet, callLog, lastSlot, dropped, abortCause, frameFaults,
                   device, resultVars, swapchainSemaphore, fenceBy>>
    /\ UNCHANGED <<dqVars, assetVars, engineVars, allocVars, geomVars>>

\* cleanup(), called when run() leaves its loop: vkDeviceWaitIdle returns
\* once the queue is empty; every slot's deletion queue is flushed; the main
\* deletion queue then destroys the pools of the per-frame allocators
RECURSIVE DestroyFrameAllocators(_, _, _)
DestroyFrameAllocators(i, allocs, dev) ==
    IF i < 0 THEN [allocs |-> allocs, dev |-> dev]
    ELSE LET r == destroy_pools(allocs[i], dev)
         IN DestroyFrameAllocators(i - 1, [allocs EXCEPT ![i] = r.a], r.dev)

Cleanup ==
    /\ pc = "loop"
    /\ gpuQueue = <<>>
    /\ cleanupLog' = cleanup(loadedScenes, frameDeletors, mainDeletionQueue)
    /\ loadedScenes' = <<>>
    /\ frameDeletors' = [s \in Slots |-> flush(frameDeletors[s]).deletors]
    /\ mainDeletionQueue' = flush(mainDeletionQueue).deletors
    /\ liveBuffers' = { b \in liveBuffers : DestroyedBy(cleanupLog', b) = 0 }
    /\ destroyCount' = [b \in DOMAIN destroyCount |->
                          destroyCount[b] + DestroyedBy(cleanupLog', b)]
    /\ LET r == DestroyFrameAllocators(FRAME_OVERLAP - 1, frameAlloc, device)
       IN /\ frameAlloc' = r.allocs
          /\ device' = r.dev
    /\ callLog' = <<>>
    /\ pc' = "done"
    /\ UNCHANGED <<frameNumber, resizeRequested, curSlot, renderFence, gpuQueue,
                   curBuf, curSet, lastSlot, dropped, abortCause, frameFaults,
                   resultVars, syncVars>>
    /\ UNCHANGED stop_rendering
    /\ UNCHANGED <<dqVars, assetVars, allocVars, geomVars>>

Next ==
    \/ RunLoop
    \/ WaitFence
    \/ WaitTimeout
    \/ ResetFence
    \/ FlushFrame
    \/ ResetFramePools
    \/ Acquire
    \/ ImageAvailable
    \/ Record
    \/ Submit
    \/ Present
    \/ GpuStart
    \/ GpuFinish
    \/ PresentExecute
    \/ Cleanup

Spec == Init /\ [][Next]_vars

\* SpecRun: the render loop of Spec with a window that may be minimized and
\* restored between the iterations of run()
\* draw() is not started by SpecRun once _frameNumber has reached MaxRunFrames
MaxRunFrames == 3

NextRun ==
    \/ RunLoop /\ frameNumber < MaxRunFrames
    \/ RunMinimized
    \/ WaitFence
    \/ WaitTimeout
    \/ ResetFence
    \/ FlushFrame
    \/ ResetFramePools
    \/ Acquire
    \/ ImageAvailable
    \/ Record
    \/ Submit
    \/ Present
    \/ GpuStart
    \/ GpuFinish
    \/ PresentExecute
    \/ Cleanup

SpecRun == Init /\ [][NextRun]_vars

(***************************************************************************)
(* Claims about the render loop (checked under Spec).                      *)
(***************************************************************************)
\* the GPU has not finished a submission made for slot s
InFlight(s) == \E i \in 1 .. Len(gpuQueue) : gpuQueue[i].slot = s

\* the descriptor set h is allocated from a pool of the device
SetLive(h) ==
    \E p \in 1 .. Len(device.pools) : h \in device.pools[p].sets

InDraw == pc \in {"wait", "reset_fence", "flush", "reset_pools", "acquire",
                  "record", "submit", "present"}

\* C1: while draw() flushes the deletion queue of its slot and resets the
\* slot's descriptor pools, no submission made for that slot is unfinished;
\* and in every state, the scene-data buffer of every unfinished submission
\* has not been destroyed and the descriptor set the slot's allocator handed
\* out for it has not been reclaimed.
C1_ReclaimOnlyAfterGpuFinished ==
    /\ pc \in {"flush", "reset_pools", "acquire"} => ~InFlight(curSlot)
    /\ \A i \in 1 .. Len(gpuQueue) :
           /\ gpuQueue[i].buf \in liveBuffers
           /\ gpuQueue[i].set.allocated => SetLive(gpuQueue[i].set.handle)

\* draw() has flushed a buffer of its slot and reset the slot's pools while
\* the submission of the other slot is still unfinished
C1_Witness ==
    /\ pc = "acquire"
    /\ frameNumber = 2
    /\ Len(gpuQueue) = 1
    /\ gpuQueue[1].slot # curSlot
    /\ 1 \notin liveBuffers
    /\ gpuQueue[1].buf \in liveBuffers

\* C2 (as claimed): the draw() call that follows a draw() which returned on
\* "out of date" passes its fence wait: when it waits, the fence of its slot
\* is signaled or a submission that will signal it is on the queue.
C2_DrawAfterOutOfDatePassesFenceWait ==
    (pc = "wait" /\ dropped > 0) =>
        (renderFence[curSlot] \/ InFlight(curSlot))

\* C3: when draw() has returned because acquisition reported "out of date",
\* the resize flag is set and the call has neither reset nor recorded the
\* command buffer, submitted nothing and presented nothing; the frame number
\* did not advance.
C3_OutOfDateSkipsRecordSubmitPresent ==
    (\E i \in 1 .. Len(callLog) : callLog[i] = "acquire_out_of_date") =>
        /\ resizeRequested
        /\ pc = "loop"
        /\ callLog[Len(callLog)] = "acquire_out_of_date"
        /\ \A i \in 1 .. Len(callLog) :
               callLog[i] \notin {"reset_cmd", "record", "submit", "present"}
        /\ ~InFlight(curSlot)
        /\ curSlot = frameNumber % FRAME_OVERLAP

\* draw() of the second frame has returned on "out of date"
C3_Witness ==
    /\ pc = "loop"
    /\ frameNumber = 1
    /\ callLog = <<"wait_fence", "reset_fence", "flush", "reset_pools",
                   "acquire_out_of_date">>
    /\ resizeRequested

\* C4: the steps of a draw() call begin, in this order, with the fence wait,
\* the fence reset, the flush of the slot's deletion queue and the reset of
\* the slot's descriptor allocator; the pools are never reset before the
\* deletion queue has been flushed in the same call.
C4_WaitResetFlushResetPoolsInOrder ==
    /\ \A i \in 1 .. Len(callLog) :
           i <= 4 => callLog[i] =
               <<"wait_fence", "reset_fence", "flush", "reset_pools">>[i]
    /\ \A i \in 1 .. Len(callLog) :
           callLog[i] = "reset_pools" =>
               \E j \in 1 .. (i - 1) : callLog[j] = "flush"
    /\ (InDraw /\ pc # "wait") => (callLog # <<>> /\ callLog[1] = "wait_fence")

\* the third frame has flushed a pending deletor and then reset its pools
C4_Witness ==
    /\ pc = "acquire"
    /\ frameNumber = 2
    /\ callLog = <<"wait_fence", "reset_fence", "flush", "reset_pools">>
    /\ frameDeletors[curSlot] = <<>>
    /\ 1 \notin liveBuffers

\* C5: at most FRAME_OVERLAP submissions are unfinished at any time, and
\* from the fence wait until its own submission draw() works on a slot for
\* which no submission is unfinished.
C5_AtMostTwoInFlightAndSlotIdle ==
    /\ Len(gpuQueue) <= FRAME_OVERLAP
    /\ pc \in {"reset_fence", "flush", "reset_pools", "acquire", "record",
               "submit"} => ~InFlight(curSlot)

\* two frames are unfinished on the GPU, one per slot
C5_Witness ==
    /\ Len(gpuQueue) = 2
    /\ gpuQueue[1].slot # gpuQueue[2].slot
    /\ pc = "wait"
    /\ frameNumber = 3

\* C6: the frame number never decreases; it increases by exactly 1 in the
\* step that ends a draw() which reached presentation and in no other step;
\* the slot of a draw() call is the frame number modulo 2, so the slots of
\* consecutive presented frames alternate.
C6_FrameIndexStep ==
    /\ frameNumber' >= frameNumber
    /\ (pc = "present" /\ pc' = "loop") =>
           /\ frameNumber' = frameNumber + 1
           /\ curSlot = frameNumber % 2
           /\ lastSlot' = curSlot
           /\ lastSlot' # lastSlot
    /\ ~(pc = "present" /\ pc' = "loop") => frameNumber' = frameNumber
    /\ pc' \in {"wait", "reset_fence", "flush", "reset_pools", "acquire",
                "record", "submit", "present"} => curSlot' = frameNumber' % 2

C6_FrameIndexMonotoneAndSlotsAlternate == [][C6_FrameIndexStep]_vars

\* three frames have been presented, the last one from slot 0
C6_Witness ==
    /\ frameNumber = 3
    /\ lastSlot = 0
    /\ pc = "loop"

(***************************************************************************)
(* Claims about DeletionQueue (checked under SpecDQ).                      *)
(***************************************************************************)
\* C7: flush() calls every action that was pending when it began exactly
\* once, and in exactly the reverse of the order in which push_function
\* appended them.
C7_FlushCallsInReversePushOrder ==
    dqOp = "flush" =>
        /\ Len(dqLast) = Len(dqBatch)
        /\ \A i \in 1 .. Len(dqBatch) :
               dqLast[i] = dqBatch[Len(dqBatch) - i + 1]
        /\ \A i \in 1 .. Len(dqBatch) :
               Cardinality({j \in 1 .. Len(dqLast) : dqLast[j] = dqBatch[i]}) = 1

\* a flush() has just run on a queue of three pending actions
C7_Witness ==
    /\ dqOp = "flush"
    /\ Len(dqBatch) = 3
    /\ dqLast[1] = dqBatch[3]
    /\ dqBatch[1].handle # dqBatch[3].handle

\* C8: after flush() the queue is empty; a flush() that directly follows a
\* flush() calls no action; no pushed action is ever called twice.
C8_FlushEmptiesAndSecondFlushIsNoOp ==
    /\ dqOp = "flush" => dq = <<>>
    /\ (dqOp = "flush" /\ dqPrev = "flush") => dqLast = <<>>
    /\ \A i, j \in 1 .. Len(dqExecuted) :
           dqExecuted[i] = dqExecuted[j] => i = j

\* two flush() calls in a row, the first of which called two actions
C8_Witness ==
    /\ dqOp = "flush"
    /\ dqPrev = "flush"
    /\ Len(dqBatch) = 0
    /\ Len(dqExecuted) = 2
    /\ dqPushes = 2

(***************************************************************************)
(* Claims about DescriptorAllocatorGrowable (checked under SpecAlloc).     *)
(***************************************************************************)
PoolFailure(result) ==
    result \in {VK_ERROR_FRAGMENTED_POOL, VK_ERROR_OUT_OF_POOL_MEMORY}

\* C9: allocate() makes a second attempt exactly when the first attempt
\* failed with pool exhaustion or fragmentation, makes it on another pool,
\* never makes a third attempt, and aborts exactly when the second attempt
\* fails (so it never returns after a second failure).
C9_RetriesExactlyOnce ==
    allocLog # <<>> =>
        /\ Len(allocLog) <= 2
        /\ PoolFailure(allocLog[1].result) <=> (Len(allocLog) = 2)
        /\ Len(allocLog) = 2 => allocLog[2].pool # allocLog[1].pool
        /\ (allocState = "aborted") <=>
               (Len(allocLog) = 2 /\ allocLog[2].result # VK_SUCCESS)

\* an allocate() whose two attempts both failed, ending in abort()
C9_Witness ==
    /\ allocState = "aborted"
    /\ Len(allocLog) = 2
    /\ PoolFailure(allocLog[1].result)
    /\ allocLog[2].result # VK_SUCCESS

\* C10: every attempt of allocate() is made on a pool popped from the ready
\* list, or on a pool created because the ready list was empty; it is never
\* made on a pool of the full list; a pool whose attempt fails with
\* exhaustion or fragmentation (after which allocate() goes on) is in the
\* full list and not in the ready list afterwards.
C10_AttemptsOnlyOnReadyPools ==
    allocLog # <<>> =>
        /\ \A i \in 1 .. Len(allocLog) :
               /\ ~allocLog[i].created =>
                      allocLog[i].pool \in SeqToSet(allocPre.readyPools)
               /\ allocLog[i].created =>
                      /\ Len(allocPre.readyPools) <= i - 1
                      /\ allocLog[i].pool \notin SeqToSet(allocPre.readyPools)
               /\ allocLog[i].pool \notin SeqToSet(allocPre.fullPools)
        /\ Len(allocLog) = 2 =>
               /\ allocLog[2].pool # allocLog[1].pool
               /\ allocLog[1].pool \in SeqToSet(alloc.fullPools)
               /\ allocLog[1].pool \notin SeqToSet(alloc.readyPools)

\* after a reset_pools() that merged a full pool back, an allocate() whose
\* first pool was exhausted made its second attempt on another ready pool
C10_Witness ==
    /\ allocResets = 1
    /\ Len(allocLog) = 2
    /\ allocLog[1].result = VK_ERROR_OUT_OF_POOL_MEMORY
    /\ ~allocLog[2].created
    /\ allocLog[2].result = VK_SUCCESS
    /\ allocState = "ready"

\* C11: no descriptor pool is ever created with a set count above the
\* ceiling of 4092 sets, whatever the initial set count given to init()
\* and whatever allocate() and reset_pools() calls follow.
C11_NoPoolAboveCeiling ==
    \A p \in 1 .. Len(device.pools) :
        device.pools[p].maxSets <= MaxSetsPerPool

\* C12: the set counts of the pools one pool-set created, taken in creation
\* order, never decrease.
C12_PoolSizesNonDecreasing ==
    \A p, q \in 1 .. Len(device.pools) :
        p < q => device.pools[p].maxSets <= device.pools[q].maxSets

\* C14: a reset_pools() step clears the contents of every pool of the
\* pool-set (ready and full), leaves fullPools empty and readyPools holding
\* exactly the pools that were in readyPools or fullPools before, each once;
\* it creates no pool, destroys no pool and leaves setsPerPool unchanged.
C14_ResetStep ==
    allocResets' = allocResets + 1 =>
        /\ alloc'.fullPools = <<>>
        /\ Len(alloc'.readyPools) =
               Len(alloc.readyPools) + Len(alloc.fullPools)
        /\ SeqToSet(alloc'.readyPools) =
               SeqToSet(alloc.readyPools) \cup SeqToSet(alloc.fullPools)
        /\ Cardinality(SeqToSet(alloc'.readyPools)) = Len(alloc'.readyPools)
        /\ \A p \in SeqToSet(alloc'.readyPools) :
               /\ device'.pools[p].sets = {}
               /\ device'.pools[p].descriptorsUsed = 0
        /\ Len(device'.pools) = Len(device.pools)
        /\ \A p \in 1 .. Len(device.pools) :
               /\ device'.pools[p].destroyed = device.pools[p].destroyed
               /\ device'.pools[p].maxSets = device.pools[p].maxSets
               /\ device'.pools[p].descriptorCount =
                      device.pools[p].descriptorCount
        /\ alloc'.setsPerPool = alloc.setsPerPool
        /\ alloc'.ratios = alloc.ratios

C14_ResetPoolsKeepsEveryPoolEmptyAndReady == [][C14_ResetStep]_vars

\* the state right after a reset_pools() that found sets allocated from a
\* full pool and from a ready pool: both pools are ready and empty
C14_Witness ==
    /\ allocResets = 1
    /\ allocLog = <<>>
    /\ allocState = "ready"
    /\ Len(alloc.readyPools) >= 2
    /\ alloc.fullPools = <<>>
    /\ allocPre.fullPools # <<>>
    /\ device.nextSet >= 3
    /\ \A p \in 1 .. Len(device.pools) : device.pools[p].sets = {}

\* n allocate() calls of one layout on an allocator whose driver reports
\* nothing but the state of its pools: were all of them successful, and was
\* a pool created
RECURSIVE RunAllocations(_, _, _, _, _)
RunAllocations(a, dev, need, n, sofar) ==
    IF n = 0 \/ ~sofar.allOk THEN sofar
    ELSE LET r == CHOOSE o \in AllocateOutcomes(a, dev, need, 0) : TRUE
         IN RunAllocations(r.a, r.dev, need, n - 1,
                           RunAfterAllocate(sofar, need, r))

\* the same calls on an allocator freshly initialized for `cap` sets
FreshRun(cap, poolRatios, need, n) ==
    LET f == init(NewAllocator, NoDevice, cap, poolRatios)
        run == RunAllocations(f.a, f.dev, need, n, NoRun)
    IN [allOk |-> run.allOk, created |-> run.created]

\* every pool has descriptors for as many sets of the layout as it has sets
RatiosCover(need) ==
    \A p \in 1 .. Len(device.pools) :
        device.pools[p].descriptorCount >= need * device.pools[p].maxSets

\* the calls since reset_pools() are the claim's: one layout, no more of
\* them than the last-created pool has sets, no driver fault among them
C13_Case ==
    /\ allocRun.active
    /\ allocRun.n >= 1
    /\ allocRun.n <= allocRun.cap
    /\ allocRun.oneLayout
    /\ allocRun.noFault

\* C13 as stated: after reset_pools(), N allocations of one layout, N at
\* most the set count of the last-created pool, all succeed, none is fatal
\* and no pool is created, as on a freshly initialized allocator of that
\* set count.
C13_AfterResetLikeFresh_AnyRatio ==
    C13_Case =>
        /\ allocRun.allOk
        /\ ~allocRun.created
        /\ allocState # "aborted"
        /\ FreshRun(allocRun.cap, alloc.ratios, allocRun.need, allocRun.n)
               = [allOk |-> allocRun.allOk, created |-> allocRun.created]

\* C13 (amended): the same, when in addition the pool ratios give every
\* pool descriptors for as many sets of the layout as its set count.
C13_AfterResetLikeFresh ==
    (C13_Case /\ RatiosCover(allocRun.need)) =>
        /\ allocRun.allOk
        /\ ~allocRun.created
        /\ allocState # "aborted"
        /\ FreshRun(allocRun.cap, alloc.ratios, allocRun.need, allocRun.n)
               = [allOk |-> TRUE, created |-> FALSE]

\* three allocations after a reset_pools() that merged a full pool back:
\* the first ready pool ran out on the way and the next one took over
C13_Witness ==
    /\ C13_Case
    /\ RatiosCover(allocRun.need)
    /\ allocRun.n = 3
    /\ Len(device.pools) = 2
    /\ Len(allocLog) = 2
    /\ allocLog[1].result = VK_ERROR_OUT_OF_POOL_MEMORY
    /\ allocLog[2].result = VK_SUCCESS

(***************************************************************************)
(* Claims about a loaded scene's pool-set (checked under SpecScene).       *)
(***************************************************************************)
\* C15: once a loaded scene has been unloaded (clearAll() has called
\* destroy_pools()), every descriptor pool created on behalf of the scene's
\* pool-set, the pools created by growth while its materials were written
\* included, has been destroyed.
C15_UnloadDestroysEveryPool ==
    allocState = "destroyed" =>
        \A p \in 1 .. Len(device.pools) : device.pools[p].destroyed

(***************************************************************************)
(* Claims about a growing pool-set (checked under SpecGrow).               *)
(***************************************************************************)
\* C16: from a pool-set initialized for 10 sets with ratios that cover the
\* layout, no allocate() call aborts and every call returns a set; once
\* 1000 consecutive calls have been made, all 1000 sets are held by the
\* pools and at least one pool beyond the initial one exists, created by
\* growth with more sets than the initial pool.
C16_ThousandAllocationsSucceedAndGrow ==
    /\ allocState # "aborted"
    /\ allocRun.allOk
    /\ device.nextSet = allocCalls + 1
    /\ allocCalls = ManyAllocations =>
           /\ allocRun.created
           /\ Len(device.pools) >= 2
           /\ \A p \in 2 .. Len(device.pools) :
                  device.pools[p].maxSets > GlobalInitialSets
           /\ Cardinality(UNION {device.pools[p].sets :
                                   p \in 1 .. Len(device.pools)})
                  = ManyAllocations

\* the 1000th allocate() has returned; the pool-set has grown on the way
C16_Witness ==
    /\ allocCalls = ManyAllocations
    /\ allocState = "ready"
    /\ allocRun.created
    /\ Len(device.pools) >= 2
    /\ device.nextSet = ManyAllocations + 1

(***************************************************************************)
(* Claims about is_in_frustum (checked under SpecCull).                    *)
(***************************************************************************)
\* the eight corners of the object's bounding box, in view space
CornersVS(obj, view) ==
    LET objectToView == Mat4Mul(view, obj.transform)
        o == obj.bounds.origin
        e == obj.bounds.extents
    IN { TransformPoint(objectToView,
                        <<o[1] + sx * e[1], o[2] + sy * e[2], o[3] + sz * e[3]>>) :
           sx \in {-1, 1}, sy \in {-1, 1}, sz \in {-1, 1} }

\* signed distance of a view-space point to a plane; positive is inside
SignedDistance(plane, point) == Dot(plane.normal, point) + plane.d

EntirelyOutside(corners, plane) ==
    \A c \in corners : SignedDistance(plane, c) < 0

EntirelyInside(corners, plane) ==
    \A c \in corners : SignedDistance(plane, c) >= 0

\* the box touches the plane from outside: no corner is inside the plane,
\* and a corner lies on it
TangentFromOutside(corners, plane) ==
    /\ \A c \in corners : SignedDistance(plane, c) <= 0
    /\ \E c \in corners : SignedDistance(plane, c) = 0

\* C17: an object whose view-space bounding box lies entirely outside at
\* least one of the six planes is excluded by is_in_frustum; an object
\* whose box lies entirely inside all six planes is kept.
C17_OutsideExcludedInsideKept ==
    cullResult # "none" =>
        LET corners == CornersVS(cullObj, cullView)
        IN /\ (\E k \in 1 .. 6 : EntirelyOutside(corners, cullPlanes[k]))
                  => cullResult = "culled"
           /\ (\A k \in 1 .. 6 : EntirelyInside(corners, cullPlanes[k]))
                  => cullResult = "kept"

\* a scaled and turned box with non-zero extents, entirely inside all six
\* planes under the turned view, has been kept
C17_Witness ==
    /\ cullResult = "kept"
    /\ cullObj.transform.m[1][2] = -2
    /\ cullView # Mat4Identity
    /\ cullObj.bounds.extents = <<1, 1, 1>>
    /\ \A k \in 1 .. 6 :
           EntirelyInside(CornersVS(cullObj, cullView), cullPlanes[k])

\* C18 as stated: a bounding box exactly tangent to a frustum plane from
\* the outside is excluded by is_in_frustum.
C18_TangentExcluded ==
    cullResult # "none" =>
        LET corners == CornersVS(cullObj, cullView)
        IN (\E k \in 1 .. 6 : TangentFromOutside(corners, cullPlanes[k]))
               => cullResult = "culled"

\* C18 (amended): a bounding box exactly tangent to a frustum plane from
\* the outside is not excluded on account of that plane: it is kept unless
\* it lies entirely outside another plane.
C18_TangentKept ==
    cullResult # "none" =>
        LET corners == CornersVS(cullObj, cullView)
        IN (/\ \E k \in 1 .. 6 : TangentFromOutside(corners, cullPlanes[k])
            /\ \A k \in 1 .. 6 : ~EntirelyOutside(corners, cullPlanes[k]))
               => cullResult = "kept"

\* a box with non-zero extents that touches one plane from outside and
\* reaches inside the others has been kept
C18_Witness ==
    /\ cullResult = "kept"
    /\ cullObj.bounds.extents = <<1, 1, 1>>
    /\ LET corners == CornersVS(cullObj, cullView)
       IN /\ \E k \in 1 .. 6 : TangentFromOutside(corners, cullPlanes[k])
          /\ \A k \in 1 .. 6 : ~EntirelyOutside(corners, cullPlanes[k])

(***************************************************************************)
(* Claims about the draw-list builder (checked under SpecDraw).            *)
(***************************************************************************)
\* the sort key of the draw at index i of OpaqueDrawData
OpaqueKey(i) ==
    <<OpaqueDrawData[i].material.pipeline,
      OpaqueDrawData[i].material.descriptorSet,
      OpaqueDrawData[i].indexBuffer>>

\* lexicographic order of two keys
KeyLeq(k1, k2) ==
    \/ k1[1] < k2[1]
    \/ k1[1] = k2[1] /\ k1[2] < k2[2]
    \/ k1[1] = k2[1] /\ k1[2] = k2[2] /\ k1[3] <= k2[3]

\* the indices of the objects that pass the frustum test
Survivors ==
    { i \in 1 .. Len(OpaqueDrawData) :
        is_in_frustum(OpaqueDrawData[i], DrawFrustum, DrawView) }

C20_OpaqueSortedByKey ==
    drawStage = "sorted" =>
        /\ SeqToSet(opaque_draws) = Survivors
        /\ Len(opaque_draws) = Cardinality(Survivors)
        /\ \A i, j \in 1 .. Len(opaque_draws) :
               i < j => KeyLeq(OpaqueKey(opaque_draws[i]),
                               OpaqueKey(opaque_draws[j]))
        /\ \A i, j, k \in 1 .. Len(opaque_draws) :
               (i < k /\ k < j) =>
                   /\ OpaqueKey(opaque_draws[i])[1] = OpaqueKey(opaque_draws[j])[1]
                          => OpaqueKey(opaque_draws[k])[1]
                                 = OpaqueKey(opaque_draws[i])[1]
                   /\ (/\ OpaqueKey(opaque_draws[i])[1]
                              = OpaqueKey(opaque_draws[j])[1]
                       /\ OpaqueKey(opaque_draws[i])[2]
                              = OpaqueKey(opaque_draws[j])[2])
                          => OpaqueKey(opaque_draws[k])[2]
                                 = OpaqueKey(opaque_draws[i])[2]

\* one object culled, two survivors that the sort has exchanged: the one
\* with the smaller descriptor set and the larger index buffer comes first
C20_Witness ==
    /\ drawStage = "sorted"
    /\ Len(OpaqueDrawData) = 3
    /\ Len(opaque_draws) = 2
    /\ opaque_draws[1] > opaque_draws[2]
    /\ OpaqueKey(opaque_draws[1])[1] = OpaqueKey(opaque_draws[2])[1]
    /\ OpaqueKey(opaque_draws[1])[2] < OpaqueKey(opaque_draws[2])[2]
    /\ OpaqueKey(opaque_draws[1])[3] > OpaqueKey(opaque_draws[2])[3]

(***************************************************************************)
(* The commands of one frame: transparent order, recording order, binds     *)
(***************************************************************************)
IsDraw(c) == c.op = "vkCmdDrawIndexed"
IsTransparentDraw(c) == IsDraw(c) /\ c.arg.material.alphaMode = "Transparent"
IsOpaqueDraw(c) == IsDraw(c) /\ c.arg.material.alphaMode # "Transparent"
\* the positions of the indexed draws in the command buffer
DrawPositions == { k \in 1 .. Len(cmd) : IsDraw(cmd[k]) }
\* the distance, squared, from the camera position to an object's translation
CameraDistance2(r) == Length2(Vec3Sub(r.transform.t, cameraPosition))

\* C21: the transparent draws are emitted in order of decreasing distance
\* between the object's world translation and the camera position: of two
\* transparent draws, the one of the strictly farther object comes first.
C21_TransparentFarthestFirst ==
    \A a, b \in DrawPositions :
        (a < b /\ IsTransparentDraw(cmd[a]) /\ IsTransparentDraw(cmd[b]))
            => CameraDistance2(cmd[a].arg) >= CameraDistance2(cmd[b].arg)

\* the camera at (0, 0, 5): a transparent object at (0, 0, 0) gathered
\* before one at (0, 0, -10), which is drawn first
C21_Witness ==
    /\ drawStage = "recorded"
    /\ cameraPosition = <<0, 0, 5>>
    /\ \E i, j \in 1 .. Len(surfaces) :
           /\ i < j
           /\ surfaces[i].material.alphaMode = "Transparent"
           /\ surfaces[j].material.alphaMode = "Transparent"
           /\ surfaces[i].transform.t = <<0, 0, 0>>
           /\ surfaces[j].transform.t = <<0, 0, -10>>
    /\ \E a, b \in DrawPositions :
           /\ a < b
           /\ IsTransparentDraw(cmd[a])
           /\ IsTransparentDraw(cmd[b])
           /\ cmd[a].arg.transform.t = <<0, 0, -10>>
           /\ cmd[b].arg.transform.t = <<0, 0, 0>>

\* the distance key of the draw at index i of TransparentDrawData
TransparentKey(i) == CameraDistance2(TransparentDrawData[i])

\* C22 as stated: the transparent sort is stable: two surviving transparent
\* objects at equal camera distance keep their input order.
C22_TransparentSortStable ==
    drawStage = "tsorted" =>
        \A i, j \in 1 .. Len(transparent_draws) :
            (i < j /\ TransparentKey(transparent_draws[i])
                          = TransparentKey(transparent_draws[j]))
                => transparent_draws[i] < transparent_draws[j]

\* C22 (amended): the transparent sort orders the draws by distance only:
\* surviving transparent objects at equal camera distance end up next to
\* each other, no object at another distance between them, in an order the
\* sort does not determine.
C22_EqualDistanceAdjacent ==
    drawStage = "tsorted" =>
        \A i, j, k \in 1 .. Len(transparent_draws) :
            (i < k /\ k < j
               /\ TransparentKey(transparent_draws[i])
                      = TransparentKey(transparent_draws[j]))
                => TransparentKey(transparent_draws[k])
                       = TransparentKey(transparent_draws[i])

\* three transparent survivors sorted: two at one distance, in the reverse
\* of their input order, and a third at another distance
C22_Witness ==
    /\ drawStage = "tsorted"
    /\ Len(transparent_draws) = 3
    /\ \E i \in 1 .. 2 :
           /\ TransparentKey(transparent_draws[i])
                  = TransparentKey(transparent_draws[i + 1])
           /\ transparent_draws[i] > transparent_draws[i + 1]
    /\ TransparentKey(transparent_draws[1]) # TransparentKey(transparent_draws[3])

\* C23: the commands of a frame are recorded in the order background
\* compute, opaque geometry, transparent geometry, UI overlay: no
\* transparent draw before an opaque draw, no geometry draw before the
\* background dispatch or after the UI overlay.
C23_RecordingOrder ==
    /\ \A a, b \in 1 .. Len(cmd) :
           a < b =>
               /\ ~(IsDraw(cmd[a]) /\ cmd[b].op = "vkCmdDispatch")
               /\ ~(IsTransparentDraw(cmd[a]) /\ IsOpaqueDraw(cmd[b]))
               /\ ~(cmd[a].op = "ImGui_ImplVulkan_RenderDrawData"
                      /\ (IsDraw(cmd[b]) \/ cmd[b].op = "vkCmdDispatch"))
    /\ \A b \in DrawPositions :
           \E a \in 1 .. b - 1 : cmd[a].op = "vkCmdDispatch"
    /\ drawStage = "recorded" =>
           /\ cmd[Len(cmd)].op = "ImGui_ImplVulkan_RenderDrawData"
           /\ \E a \in 1 .. Len(cmd) : cmd[a].op = "vkCmdDispatch"

\* a recorded frame with an opaque and a transparent draw, the transparent
\* object gathered before the opaque one
C23_Witness ==
    /\ drawStage = "recorded"
    /\ \E a, b \in DrawPositions :
           a < b /\ IsOpaqueDraw(cmd[a]) /\ IsTransparentDraw(cmd[b])
    /\ \E i, j \in 1 .. Len(surfaces) :
           /\ i < j
           /\ surfaces[i].material.alphaMode = "Transparent"
           /\ surfaces[j].material.alphaMode = "Opaque"
           /\ is_in_frustum(surfaces[i], DrawFrustum, DrawView)
           /\ is_in_frustum(surfaces[j], DrawFrustum, DrawView)

\* the draw before position b, 0 when b is the first draw of the frame
PreviousDraw(b) ==
    IF \E a \in DrawPositions : a < b
    THEN CHOOSE a \in DrawPositions :
             a < b /\ \A k \in DrawPositions : k < b => k <= a
    ELSE 0
\* a command op recorded after position a and before position b
BoundBetween(op, a, b) == \E k \in a + 1 .. b - 1 : cmd[k].op = op

\* C24: a pipeline bind is issued for a draw only if its pipeline differs
\* from that of the previous draw (or it is the first draw of the frame);
\* descriptor sets are bound only if the pipeline layout or the material's
\* descriptor set differs from the previous draw's; a draw with the
\* material of the previous draw issues neither.
C24_BindsOnlyOnChange ==
    \A b \in DrawPositions :
        LET a == PreviousDraw(b)
        IN a # 0 =>
            LET m == cmd[b].arg.material
                last == cmd[a].arg.material
            IN /\ BoundBetween("vkCmdBindPipeline", a, b)
                      => m.pipeline # last.pipeline
               /\ BoundBetween("vkCmdBindDescriptorSets", a, b)
                      => \/ pipeline_layout(m.pipeline)
                                # pipeline_layout(last.pipeline)
                         \/ m.descriptorSet # last.descriptorSet
               /\ m = last =>
                      /\ ~BoundBetween("vkCmdBindPipeline", a, b)
                      /\ ~BoundBetween("vkCmdBindDescriptorSets", a, b)

\* a recorded frame of three draws: the second has the material of the
\* first and no bind before it, the third another pipeline, bound before it
C24_Witness ==
    /\ drawStage = "recorded"
    /\ Cardinality(DrawPositions) = 3
    /\ \E a, b, c \in DrawPositions :
           /\ a = PreviousDraw(b)
           /\ b = PreviousDraw(c)
           /\ cmd[a].arg.material = cmd[b].arg.material
           /\ ~BoundBetween("vkCmdBindPipeline", a, b)
           /\ ~BoundBetween("vkCmdBindDescriptorSets", a, b)
           /\ cmd[b].arg.material.pipeline # cmd[c].arg.material.pipeline
           /\ BoundBetween("vkCmdBindPipeline", b, c)
           /\ BoundBetween("vkCmdBindDescriptorSets", b, c)

\* the indices of the surfaces that pass the frustum test
SurvivingSurfaces ==
    { i \in 1 .. Len(surfaces) :
        is_in_frustum(surfaces[i], DrawFrustum, DrawView) }

\* C26: in a recorded frame the number of indexed draw calls equals the
\* number of gathered render objects that pass the frustum test, and each
\* such object is drawn exactly once.
C26_EverySurvivorDrawnOnce ==
    drawStage \in {"drawn", "recorded"} =>
        LET kept == SurvivingSurfaces
        IN /\ Cardinality(DrawPositions) = Cardinality(kept)
           /\ \A k \in DrawPositions :
                  \E i \in kept : cmd[k].arg = surfaces[i]
           /\ \A i \in kept :
                  Cardinality({ k \in DrawPositions : cmd[k].arg = surfaces[i] })
                      = Cardinality({ j \in kept : surfaces[j] = surfaces[i] })

\* a recorded frame of three surfaces: one is culled, the other two, one
\* opaque and one transparent, are drawn
C26_Witness ==
    /\ drawStage = "recorded"
    /\ Len(surfaces) = 3
    /\ Cardinality(DrawPositions) = 2
    /\ \E a, b \in DrawPositions :
           IsOpaqueDraw(cmd[a]) /\ IsTransparentDraw(cmd[b])

(***************************************************************************)
(* The draw lists across frames, the results of the Vulkan calls, and the   *)
(* semaphores                                                              *)
(***************************************************************************)
\* the steps of draw() after update_render_scene() and before the lists are
\* cleared by draw_geometry
AfterTraversal == {"wait", "reset_fence", "flush", "reset_pools", "acquire",
                   "record"}
\* one traversal of the scene, gathered onto empty lists
OneTraversal ==
    gather_draw_data(surfaces, 1,
                     [OpaqueDrawData |-> <<>>, TransparentDrawData |-> <<>>])

\* C25: the draw lists do not accumulate across frames: the traversal of
\* every draw() starts from empty lists, whatever the outcome of the draw()
\* before, so after it the lists hold the objects of one traversal.
C25_ListsHoldOneTraversal ==
    pc \in AfterTraversal =>
        /\ OpaqueDrawData = OneTraversal.OpaqueDrawData
        /\ TransparentDrawData = OneTraversal.TransparentDrawData

\* C27: a presentation result of "out of date" or "suboptimal" sets the
\* resize flag and does not abort; any other result than success aborts.
C27_PresentResultHandled ==
    /\ presentResult \in {"VK_ERROR_OUT_OF_DATE_KHR", "VK_SUBOPTIMAL_KHR"} =>
           /\ pc # "aborted"
           /\ resizeRequested
           /\ abortCause = ""
    /\ presentResult = "VK_SUCCESS" => pc # "aborted" /\ abortCause = ""
    /\ presentResult \notin {"none", "VK_SUCCESS", "VK_ERROR_OUT_OF_DATE_KHR",
                             "VK_SUBOPTIMAL_KHR"} =>
           /\ pc = "aborted"
           /\ abortCause = "vkQueuePresentKHR"

\* the second frame was presented with the result "suboptimal"
C27_Witness ==
    /\ presentResult = "VK_SUBOPTIMAL_KHR"
    /\ resizeRequested
    /\ frameNumber = 2

\* C28 as stated: an acquisition result of "suboptimal" is handled by
\* setting the resize-needed flag.
C28_AcquireSuboptimalSetsFlag ==
    (acquireResult = "VK_SUBOPTIMAL_KHR" /\ pc \in {"record", "submit", "present"})
        => resizeRequested

\* C28 (amended): an acquisition result of "suboptimal" is not an error and
\* does not set the resize flag: draw() goes on to record, submit and
\* present the frame with the flag still clear.
C28_AcquireSuboptimalGoesOn ==
    acquireResult = "VK_SUBOPTIMAL_KHR" =>
        /\ abortCause # "vkAcquireNextImageKHR"
        /\ pc \in {"record", "submit", "present"} => ~resizeRequested
        /\ pc \notin {"acquire", "wait", "reset_fence", "flush", "reset_pools"}

\* a frame acquired as "suboptimal" has been recorded and is submitted
C28_Witness ==
    /\ acquireResult = "VK_SUBOPTIMAL_KHR"
    /\ pc = "present"
    /\ ~resizeRequested
    /\ \E i \in 1 .. Len(gpuQueue) : gpuQueue[i].buf = curBuf

\* C29: when the fence wait does not complete within the second, the
\* process aborts: the wait is not retried and the call has made, and will
\* make, no flush, pool reset or recording.
C29_FenceTimeoutAborts ==
    waitResult = "VK_TIMEOUT" =>
        /\ pc = "aborted"
        /\ abortCause = "fence wait timeout"
        /\ callLog = <<>>

\* the wait timed out on a slot whose earlier frame the GPU has not finished
C29_Witness ==
    /\ waitResult = "VK_TIMEOUT"
    /\ pc = "aborted"
    /\ \E i \in 1 .. Len(gpuQueue) : gpuQueue[i].slot = curSlot

\* the slot of the frame whose scene-data buffer has number buf
SlotOfBuffer(buf) == (buf - 1) % FRAME_OVERLAP

\* C30: the GPU starts to execute a frame's command buffer only after the
\* slot's swapchainSemaphore was signaled by the acquisition of that frame;
\* a frame is presented only after its renderSemaphore was signaled, which
\* is after the GPU finished its command buffer; and the slot's fence is
\* signaled by that same submission.
C30_SemaphoresOrderGpuAndPresent ==
    /\ \A i \in 1 .. Len(gpuQueue) :
           /\ gpuQueue[i].started => gpuQueue[i].startedAfter = gpuQueue[i].buf
           /\ ~gpuQueue[i].started =>
                  fenceBy[gpuQueue[i].slot] # gpuQueue[i].buf
    /\ lastPresented.frame # 0 =>
           /\ lastPresented.after # 0
           /\ SlotOfBuffer(lastPresented.after) = SlotOfBuffer(lastPresented.frame)
           /\ \A i \in 1 .. Len(gpuQueue) : gpuQueue[i].buf # lastPresented.frame
           /\ fenceBy[SlotOfBuffer(lastPresented.frame)] >= lastPresented.frame
    /\ \A s \in Slots :
           /\ renderSemaphore[s] # 0 =>
                  /\ SlotOfBuffer(renderSemaphore[s]) = s
                  /\ fenceBy[s] = renderSemaphore[s]
           /\ fenceBy[s] # 0 => SlotOfBuffer(fenceBy[s]) = s

\* the second frame of slot 0 has been presented while the frame after it
\* is still executing on the GPU
C30_Witness ==
    /\ lastPresented.frame = 3
    /\ lastPresented.after = 3
    /\ gpuQueue # <<>>
    /\ gpuQueue[1].started
    /\ gpuQueue[1].buf = 4

\* the nodes reachable from the nodes of the set from by at most k steps
\* along children
RECURSIVE NodesWithin(_, _)
NodesWithin(from, k) ==
    IF k = 0 THEN from
    ELSE NodesWithin(
             from \cup { c \in DOMAIN nodeObj :
                           \E n \in from :
                             \E i \in 1 .. Len(nodeObj[n].children) :
                               nodeObj[n].children[i] = c },
             k - 1)
\* the nodes a traversal from the top nodes reaches
ReachableNodes ==
    NodesWithin({ topNodes[i] : i \in 1 .. Len(topNodes) }, Len(nodeObj))
\* the nodes the file holds
FileNodes == { nodes[i] : i \in 1 .. Len(nodes) }

\* C31: after loading and after any sequence of delete_node and
\* delete_all_nodes_except calls, the world transform of every node of the
\* file is the world transform of its parent times its own local transform,
\* and the root transform (identity) times its local transform for a node
\* without a parent.
C31_WorldTransformsConsistent ==
    \A n \in FileNodes :
        LET base == IF nodeObj[n].parent = 0 THEN Mat4Identity
                    ELSE nodeObj[nodeObj[n].parent].worldTransform
        IN nodeObj[n].worldTransform = Mat4Mul(base, nodeObj[n].localTransform)

\* the render objects of a DrawContext, opaque and transparent
ContextObjects(ctx) ==
    { ctx.OpaqueDrawData[i] : i \in 1 .. Len(ctx.OpaqueDrawData) }
        \cup { ctx.TransparentDrawData[i] : i \in 1 .. Len(ctx.TransparentDrawData) }
\* the reachable mesh nodes
ReachableMeshNodes == { n \in ReachableNodes : nodeObj[n].kind = "MeshNode" }

\* C34: every render object a traversal started with root transform T
\* appended carries T times the world transform of the mesh node it comes
\* from, and every reachable mesh node has its render objects with that
\* transform, at any depth and under mesh-bearing ancestors or not.
C34_ObjectTransformIsTopTimesWorld ==
    nodeStage = "gathered" =>
        /\ \A r \in ContextObjects(drawContext) :
               \E n \in ReachableMeshNodes :
                   /\ FileMeshes[nodeObj[n].mesh].indexBuffer = r.indexBuffer
                   /\ r.transform = Mat4Mul(topMatrix, nodeObj[n].worldTransform)
        /\ \A n \in ReachableMeshNodes :
               \A i \in 1 .. Len(FileMeshes[nodeObj[n].mesh].surfaces) :
                   RenderObjectOf(FileMeshes[nodeObj[n].mesh],
                                  FileMeshes[nodeObj[n].mesh].surfaces[i],
                                  Mat4Mul(topMatrix, nodeObj[n].worldTransform))
                       \in ContextObjects(drawContext)

\* the number of entries of the list data that were built from surface i of
\* mesh m
ObjectsOfSurface(data, m, i) ==
    Cardinality({ k \in 1 .. Len(data) :
                    /\ data[k].indexBuffer = FileMeshes[m].indexBuffer
                    /\ data[k].firstIndex = FileMeshes[m].surfaces[i].startIndex
                    /\ data[k].indexCount = FileMeshes[m].surfaces[i].count
                    /\ data[k].material = FileMeshes[m].surfaces[i].material })
\* the number of reachable nodes that carry mesh m
NodesOfMesh(m) == Cardinality({ n \in ReachableMeshNodes : nodeObj[n].mesh = m })
\* the number of surfaces of the reachable mesh nodes
RECURSIVE ReachableSurfaces(_)
ReachableSurfaces(m) ==
    IF m = 0 THEN 0
    ELSE NodesOfMesh(m) * Len(FileMeshes[m].surfaces) + ReachableSurfaces(m - 1)

\* C40: a traversal appends one render object for each surface of every
\* mesh node reachable from the top nodes and nothing else; the object of a
\* surface is on the transparent list if the alpha mode of its material is
\* Transparent and on the opaque list otherwise.
C40_OneObjectPerSurface ==
    nodeStage = "gathered" =>
        /\ \A m \in 1 .. Len(FileMeshes) :
             \A i \in 1 .. Len(FileMeshes[m].surfaces) :
               LET transparent ==
                       FileMeshes[m].surfaces[i].material.alphaMode = "Transparent"
               IN /\ ObjectsOfSurface(drawContext.TransparentDrawData, m, i) =
                         IF transparent THEN NodesOfMesh(m) ELSE 0
                  /\ ObjectsOfSurface(drawContext.OpaqueDrawData, m, i) =
                         IF transparent THEN 0 ELSE NodesOfMesh(m)
        /\ Len(drawContext.OpaqueDrawData) + Len(drawContext.TransparentDrawData)
               = ReachableSurfaces(Len(FileMeshes))

\* a traversal, after the deletion of a node, of a file that keeps a node
\* without a mesh and its child, which carries the mesh with an opaque and a
\* transparent surface
C40_Witness ==
    /\ nodeStage = "gathered"
    /\ nodeDeletes > 0
    /\ \E n \in ReachableNodes :
           /\ nodeObj[n].kind = "Node"
           /\ \E i \in 1 .. Len(nodeObj[n].children) :
                  nodeObj[nodeObj[n].children[i]].mesh = 1
    /\ Len(nodes) = 2
    /\ Len(drawContext.TransparentDrawData) = 1
    /\ Len(drawContext.OpaqueDrawData) = 1

\* the last position before d among the positions at, 0 if there is none
LastBefore(at, d) ==
    IF \E k \in at : k < d
    THEN CHOOSE k \in at : k < d /\ \A j \in at : j < d => j <= k
    ELSE 0
\* the positions of the pipeline binds at the graphics bind point
GraphicsPipelineBinds ==
    { k \in 1 .. Len(cmd) :
        cmd[k].op = "vkCmdBindPipeline" /\ cmd[k].arg.bindPoint = "graphics" }
\* the positions of the binds of set number firstSet at the graphics bind point
GraphicsSetBinds(firstSet) ==
    { k \in 1 .. Len(cmd) :
        /\ cmd[k].op = "vkCmdBindDescriptorSets"
        /\ cmd[k].arg.bindPoint = "graphics"
        /\ cmd[k].arg.firstSet = firstSet }
\* the positions of the index buffer binds
IndexBufferBinds == { k \in 1 .. Len(cmd) : cmd[k].op = "vkCmdBindIndexBuffer" }

\* C35: at every indexed draw the graphics pipeline, the scene-data set
\* (set 0), the material set (set 1) and the index buffer bound last are
\* those of the object drawn.
C35_BoundStateMatchesObject ==
    \A d \in DrawPositions :
        LET r == cmd[d].arg
            p == LastBefore(GraphicsPipelineBinds, d)
            s0 == LastBefore(GraphicsSetBinds(0), d)
            s1 == LastBefore(GraphicsSetBinds(1), d)
            ib == LastBefore(IndexBufferBinds, d)
        IN /\ p # 0 /\ cmd[p].arg.pipeline = r.material.pipeline
           /\ s0 # 0 /\ cmd[s0].arg.set = "sceneDataDescriptorSet"
           /\ s1 # 0 /\ cmd[s1].arg.set = r.material.descriptorSet
           /\ ib # 0 /\ cmd[ib].arg = r.indexBuffer

\* three draws of one frame: the second keeps the pipeline of the first and
\* changes the material set and the index buffer, the third changes the
\* pipeline and returns to the index buffer of the first
C35_Witness ==
    /\ drawStage = "recorded"
    /\ Cardinality(DrawPositions) = 3
    /\ \E a, b, c \in DrawPositions :
           /\ a = PreviousDraw(b)
           /\ b = PreviousDraw(c)
           /\ cmd[a].arg.material.pipeline = cmd[b].arg.material.pipeline
           /\ cmd[a].arg.material.descriptorSet # cmd[b].arg.material.descriptorSet
           /\ cmd[a].arg.indexBuffer # cmd[b].arg.indexBuffer
           /\ ~BoundBetween("vkCmdBindPipeline", a, b)
           /\ cmd[b].arg.material.pipeline # cmd[c].arg.material.pipeline
           /\ cmd[c].arg.indexBuffer = cmd[a].arg.indexBuffer

\* the pools of the device that were created and not destroyed
LivePools == { p \in 1 .. Len(device.pools) : ~device.pools[p].destroyed }

\* C36: between the operations of a pool-set every pool it created and did
\* not destroy is on exactly one of readyPools and fullPools, once; and after
\* an allocate that returned, the pool of its last attempt is on readyPools.
C36_EveryPoolInOneList ==
    allocState \in {"ready", "destroyed"} =>
        /\ SeqToSet(alloc.readyPools) \cup SeqToSet(alloc.fullPools) = LivePools
        /\ Len(alloc.readyPools) + Len(alloc.fullPools) = Cardinality(LivePools)
        /\ (allocState = "ready" /\ allocLog # <<>>) =>
               allocLog[Len(allocLog)].pool \in SeqToSet(alloc.readyPools)

\* an allocate found its pool exhausted, moved it to fullPools and was
\* served by a pool it created
C36_Witness ==
    /\ allocState = "ready"
    /\ Len(allocLog) = 2
    /\ allocLog[1].result = VK_ERROR_OUT_OF_POOL_MEMORY
    /\ allocLog[2].result = VK_SUCCESS
    /\ allocLog[2].created
    /\ allocLog[1].pool \in SeqToSet(alloc.fullPools)
    /\ allocLog[2].pool \in SeqToSet(alloc.readyPools)

\* C37: an allocate that returns to its caller returns a set that was
\* allocated: the last vkAllocateDescriptorSets call it made succeeded;
\* after any other result the process was terminated.
C37_ReturnsAllocatedSetOrAborts ==
    (allocState = "ready" /\ allocLog # <<>>) =>
        allocLog[Len(allocLog)].result = VK_SUCCESS

\* the steps of draw() up to the acquisition of the swapchain image
BeforeAcquisition == {"wait", "reset_fence", "flush", "reset_pools", "acquire"}

\* C32: an iteration of run() that goes on to draw() has examined the resize
\* flag first: the window is not minimized, the flag is clear when draw()
\* starts, and if it was set the device was idle when the swapchain was
\* recreated; the flag is cleared nowhere else, an iteration of a minimized
\* window neither clears it nor draws, and draw() is never on its way to
\* the acquisition with the flag set.
C32_Step ==
    /\ (pc = "loop" /\ pc' = "wait") =>
           /\ ~stop_rendering'
           /\ ~resizeRequested'
           /\ resizeRequested => gpuQueue = <<>>
    /\ (resizeRequested /\ ~resizeRequested') => (pc = "loop" /\ pc' = "wait")
    /\ (pc = "loop" /\ stop_rendering') =>
           /\ pc' \in {"loop", "done"}
           /\ resizeRequested' = resizeRequested
    /\ pc' \in BeforeAcquisition => ~resizeRequested'

C32_ResizeBeforeAcquisition == [][C32_Step]_vars

\* the last frame was presented "out of date", which set the flag; the
\* next draw() has reached the acquisition with the flag clear while that
\* presentation is still queued
C32_Witness ==
    /\ pc = "acquire"
    /\ ~resizeRequested
    /\ ~stop_rendering
    /\ frameNumber = 2
    /\ \E i \in 1 .. Len(presentQueue) :
           presentQueue[i].frame = frameNumber /\ ~presentQueue[i].shown

\* how often the scene-data buffer of frame number b had been destroyed
DestroyedTimes(count, b) == IF b \in DOMAIN count THEN count[b] ELSE 0

\* C38: a scene-data buffer of draw_geometry is destroyed by the flush of
\* its slot's deletion queue when draw() reuses the slot after the fence
\* wait, or by cleanup() with the device idle, and by nothing else; it is
\* never destroyed a second time, and after cleanup() every one of them has
\* been destroyed.
C38_Step ==
    \A b \in DOMAIN destroyCount' :
       /\ destroyCount'[b] <= 1
       /\ destroyCount'[b] > DestroyedTimes(destroyCount, b) =>
              \/ /\ pc = "flush"
                 /\ pc' = "reset_pools"
                 /\ b \in SeqToSet(frameDeletors[curSlot])
                 /\ \A k \in 1 .. Len(gpuQueue) : gpuQueue[k].buf # b
              \/ /\ pc = "loop"
                 /\ pc' = "done"
                 /\ gpuQueue = <<>>
       /\ (destroyCount'[b] = 0) = (b \in liveBuffers')
       /\ pc' = "done" => destroyCount'[b] = 1

C38_SceneBufferDestroyedOnce == [][C38_Step]_vars

\* cleanup() has run after three frames: the buffer of the first was
\* destroyed when its slot was reused, another one by cleanup()
C38_Witness ==
    /\ pc = "done"
    /\ \E b1, b2 \in DOMAIN destroyCount :
           /\ DestroyedBy(cleanupLog, b1) = 0
           /\ destroyCount[b1] = 1
           /\ DestroyedBy(cleanupLog, b2) = 1
           /\ destroyCount[b2] = 1

\* the places of call e in log
Places(log, e) == { k \in 1 .. Len(log) : log[k] = e }

\* the buffers and the images the scenes own
SceneBuffers ==
    UNION { {LoadedScenes[i].materialDataBuffer}
            \cup { LoadedScenes[i].meshes[j].indexBuffer :
                      j \in 1 .. Len(LoadedScenes[i].meshes) }
            \cup { LoadedScenes[i].meshes[j].vertexBuffer :
                      j \in 1 .. Len(LoadedScenes[i].meshes) } :
            i \in 1 .. Len(LoadedScenes) }
SceneImages ==
    UNION { SeqToSet(LoadedScenes[i].images) : i \in 1 .. Len(LoadedScenes) }
    \ {errorCheckerboardImage}
\* the images the engine owns
EngineImages ==
    { Handle("engine", n, 0) :
        n \in {"_drawImage", "_depthImage", "_whiteImage", "_greyImage",
               "_blackImage", "_errorCheckerboardImage"} }

\* C39: cleanup() starts with vkDeviceWaitIdle on an idle device, flushes
\* the deletion queue of every frame slot before the main one, and
\* vmaDestroyAllocator is the last call of the main flush, made once, after
\* every scene buffer and image, every scene-data buffer of a frame slot
\* and every image of the engine has been destroyed once.
C39_AllocatorDestroyedLast ==
    pc = "done" =>
       LET log == cleanupLog
           mainFlush == Places(log, Release("flush",
                                   Handle("engine", "_mainDeletionQueue", 0)))
           destroyAllocator ==
               Places(log, Release("vmaDestroyAllocator",
                                   Handle("engine", "_allocator", 0)))
       IN /\ log[1] = Release("vkDeviceWaitIdle", Handle("engine", "_device", 0))
          /\ gpuQueue = <<>>
          /\ Cardinality(mainFlush) = 1
          /\ Cardinality(destroyAllocator) = 1
          /\ \A s \in Slots :
                LET frameFlush == Places(log, Release("flush",
                                         Handle("frame", "deletionQueue", s)))
                IN /\ Cardinality(frameFlush) = 1
                   /\ \A k \in frameFlush : \A m \in mainFlush : k < m
          /\ \A k \in 1 .. Len(log) :
                log[k].op \in {"vmaDestroyBuffer", "vmaDestroyImage"} =>
                   /\ \A a \in destroyAllocator : k < a
                   /\ log[k].target.owner \in {"frame", "scene"} =>
                          \A m \in mainFlush : k < m
          /\ \A a \in destroyAllocator :
                /\ \A m \in mainFlush : m < a
                /\ log[a + 1] = Release("destroy_swapchain",
                                        Handle("engine", "_swapchain", 0))
          /\ \A b \in SceneBuffers :
                Cardinality(Places(log, Release("vmaDestroyBuffer", b))) = 1
          /\ \A i \in SceneImages \cup EngineImages :
                Cardinality(Places(log, Release("vmaDestroyImage", i))) = 1
          /\ \A b \in DOMAIN destroyCount : destroyCount[b] = 1
          /\ liveBuffers = {}
          /\ mainDeletionQueue = <<>>
          /\ loadedScenes = <<>>

\* cleanup() has run with a scene-data buffer waiting in the deletion queue
\* of each frame slot
C39_Witness ==
    /\ pc = "done"
    /\ Cardinality({ b \in DOMAIN destroyCount :
                       DestroyedBy(cleanupLog, b) = 1 }) = FRAME_OVERLAP

\* the staging buffers the commands of a sequence read
BuffersRead(commands) ==
    { commands[k].src : k \in 1 .. Len(commands) } \ {0}

\* C33: immediate_submit returns to its caller only once _immFence is
\* signaled and the GPU has executed every submitted command; a wait that
\* ends otherwise aborts; a staging buffer is destroyed only by the caller
\* after that return, and a command the GPU has yet to execute never reads a
\* destroyed staging buffer.
C33_Step ==
    /\ (immPc = "wait" /\ immPc' = "destroy") =>
           /\ immFence
           /\ ~immPending
           /\ immQueue = <<>>
    /\ (immPc = "wait" /\ immPc' \notin {"wait", "destroy"}) => immPc' = "aborted"
    /\ stagingBuffers' # stagingBuffers /\ immPc # "idle" =>
           /\ immPc = "destroy"
           /\ stagingBuffers' = stagingBuffers \ {immStaging}
           /\ ~immPending
           /\ immQueue = <<>>
    /\ BuffersRead(immQueue') \subseteq stagingBuffers'

C33_ImmediateSubmitIsSynchronous == [][C33_Step]_vars

\* a mesh and an image have been uploaded, the staging buffer of each was
\* destroyed, and the staging buffer of a third upload is being read
C33_Witness ==
    /\ Len(uploaded) = 2
    /\ \E i, j \in 1 .. 2 :
           uploaded[i].fn = "upload_mesh" /\ uploaded[j].fn = "create_image"
    /\ immPc = "wait"
    /\ immPending
    /\ BuffersRead(immQueue) = {3}
    /\ stagingBuffers = {3}

====
